---- MODULE Spec2Model ----
(***************************************************************************)
(* A model of farm's linking engine: the Path Matcher, the fold decision,  *)
(* the Lock Store and the tree linker (Link / Unlink), over a small POSIX  *)
(* filesystem with symlinks.                                                *)
(*                                                                         *)
(* Strings are sequences of one-character strings, so that the string      *)
(* operations of the code (HasPrefix, TrimPrefix, Split, Contains,         *)
(* filepath.Match) are computed and not assumed.  A filesystem path is the *)
(* sequence of its segments (the cleaned absolute path "/s/d" is           *)
(* << <<"s">>, <<"d">> >>); PathStr gives its string.                      *)
(***************************************************************************)
EXTENDS Integers, Sequences, FiniteSets, TLC

VARIABLES
    cfg,      \* the validated configuration: [Packages, Ignore]
    fs,       \* the filesystem: physical path -> node
    lock,     \* LockFile.Symlinks: target path -> Symlink record
    result,   \* the outcome of the last Link / Unlink call
    prev,     \* the filesystem and Lock Store the last call started from
    clock,    \* time.Now(), advanced by every operation
    steps,    \* number of operations performed so far
    header,   \* the rest of the LockFile in memory: [Exists, Version,
              \* Updated, Symlinks ("map", or "nil" for a nil map)]
    disk,     \* the lock file on disk: a document, or absent
    calls,    \* the AddSymlink / RemoveSymlink calls made on a fresh store
    probe,    \* a query of the two path matchers: its pattern and paths,
              \* and their answers once it was asked
    runs,     \* the invocations of the farm command: for each its position
              \* in the handler and the values the handler holds
    mem       \* the memory of package config: the arrays behind its slices,
              \* the variable defaultIgnorePatterns, the Config values

vars ==
    <<cfg, fs, lock, result, prev, clock, steps, header, disk, calls, probe,
      runs, mem>>

-----------------------------------------------------------------------------
(* Bounds of the model.                                                    *)

\* the number of operations (engine calls and user edits) in one behaviour
MaxSteps == 3

\* the greatest length of a package's fold, no_fold and of the ignore list
MaxPatterns == 1

\* the number of symlinks followed before a resolution gives up (ELOOP)
MaxSymlinkHops == 4

\* the number of invocations of the farm command in one behaviour
MaxRuns == 2

\* the number of Config values of one process, the number of calls of
\* Validate on each, and the greatest length of a Config's ignore list
MaxConfigs == 2
MaxValidations == 2
MaxIgnore == 2

-----------------------------------------------------------------------------
(* Strings.                                                                *)

SLASH == "/"

\* a byte that is not valid UTF-8 (file names are byte strings), and the
\* Unicode replacement character U+FFFD
InvalidByte == "xFF"
ReplacementChar == "uFFFD"

\* the characters in byte order (sort.Strings and os.ReadDir order by bytes)
AsciiOrder ==
    <<"*", "-", ".", "/", "?", "A", "C", "D", "E", "G", "I", "L", "M", "N",
      "O", "P", "R", "S", "Y", "[", "\\", "]", "^", "_", "a", "b", "c", "d",
      "e", "f", "g", "h", "i", "k", "o", "r", "s", "t", "u", "x", "y", "z",
      "uFFFD", "xFF">>

Code(c) == CHOOSE i \in 1..Len(AsciiOrder) : AsciiOrder[i] = c

RECURSIVE StrLess(_, _)
\* a < b for strings, byte-wise lexicographic
StrLess(a, b) ==
    IF b = <<>> THEN FALSE
    ELSE IF a = <<>> THEN TRUE
    ELSE IF Head(a) = Head(b) THEN StrLess(Tail(a), Tail(b))
    ELSE Code(Head(a)) < Code(Head(b))

\* strings.HasPrefix
HasPrefix(s, p) == Len(s) >= Len(p) /\ SubSeq(s, 1, Len(p)) = p

\* strings.TrimPrefix
TrimPrefix(s, p) == IF HasPrefix(s, p) THEN SubSeq(s, Len(p) + 1, Len(s)) ELSE s

\* strings.Contains
Contains(s, sub) ==
    \E i \in 0..(Len(s) - Len(sub)) : SubSeq(s, i + 1, i + Len(sub)) = sub

RECURSIVE Split(_)
\* strings.Split(s, "/"): always at least one part
Split(s) ==
    IF \A i \in 1..Len(s) : s[i] # SLASH THEN <<s>>
    ELSE LET i == CHOOSE k \in 1..Len(s) :
                      s[k] = SLASH /\ \A j \in 1..(k - 1) : s[j] # SLASH
         IN  <<SubSeq(s, 1, i - 1)>> \o Split(SubSeq(s, i + 1, Len(s)))

\* the result of reading a malformed pattern (ErrBadPattern)
BadPattern == [ok |-> FALSE, r |-> "", match |-> FALSE, rest |-> <<>>]

\* getEsc of filepath.Match: the next character of a character class, an
\* escaped one included; a class may not end here
GetEsc(chunk) ==
    IF chunk = <<>> \/ Head(chunk) \in {"-", "]"} THEN BadPattern
    ELSE LET c == IF Head(chunk) = "\\" THEN Tail(chunk) ELSE chunk
         IN  IF c = <<>> \/ Tail(c) = <<>> THEN BadPattern
             ELSE [ok |-> TRUE, r |-> Head(c), match |-> FALSE, rest |-> Tail(c)]

RECURSIVE ClassRanges(_, _, _, _)
\* the range loop of matchChunk: does r lie in one of the ranges up to the
\* closing ']' (which closes only after at least one range)
ClassRanges(chunk, r, nrange, match) ==
    IF chunk # <<>> /\ Head(chunk) = "]" /\ nrange > 0
    THEN [ok |-> TRUE, r |-> r, match |-> match, rest |-> Tail(chunk)]
    ELSE LET lo == GetEsc(chunk)
         IN  IF ~lo.ok THEN BadPattern
             ELSE IF Head(lo.rest) = "-"
             THEN LET hi == GetEsc(Tail(lo.rest))
                  IN  IF ~hi.ok THEN BadPattern
                      ELSE ClassRanges(hi.rest, r, nrange + 1,
                               match \/ (Code(lo.r) <= Code(r)
                                             /\ Code(r) <= Code(hi.r)))
             ELSE ClassRanges(lo.rest, r, nrange + 1, match \/ lo.r = r)

\* the character class that follows a '[': whether r is accepted, and the
\* pattern after the class.  Unlike '*' and '?', a class does not test r
\* for the separator
Class(chunk, r) ==
    LET negated == chunk # <<>> /\ Head(chunk) = "^"
        ranges == ClassRanges(IF negated THEN Tail(chunk) ELSE chunk, r, 0, FALSE)
    IN  [ok |-> ranges.ok /\ ranges.match # negated, rest |-> ranges.rest]

RECURSIVE Match(_, _)
\* filepath.Match, the error dropped as its callers drop it (a malformed
\* pattern matches nothing): '*' is any run of non-separators, '?' one
\* non-separator, '[...]' a character class, '\' c the character c
Match(pattern, name) ==
    IF pattern = <<>> THEN name = <<>>
    ELSE IF Head(pattern) = "*"
         THEN \/ Match(Tail(pattern), name)
              \/ name # <<>> /\ Head(name) # SLASH /\ Match(pattern, Tail(name))
    ELSE IF Head(pattern) = "["
         THEN /\ name # <<>>
              /\ Class(Tail(pattern), Head(name)).ok
              /\ Match(Class(Tail(pattern), Head(name)).rest, Tail(name))
    ELSE IF Head(pattern) = "\\"
         THEN /\ Len(pattern) >= 2
              /\ name # <<>>
              /\ pattern[2] = Head(name)
              /\ Match(SubSeq(pattern, 3, Len(pattern)), Tail(name))
         ELSE /\ name # <<>>
              /\ \/ Head(pattern) = "?" /\ Head(name) # SLASH
                 \/ Head(pattern) = Head(name)
              /\ Match(Tail(pattern), Tail(name))

RECURSIVE PathStr(_)
\* the string of an absolute path: "/" + segments joined by "/"
PathStr(p) ==
    IF p = <<>> THEN <<>> ELSE <<SLASH>> \o Head(p) \o PathStr(Tail(p))

\* filepath.Join(rel, name) for a clean relative rel and a plain name
JoinRel(rel, name) == IF rel = <<>> THEN name ELSE rel \o <<SLASH>> \o name

\* a < b for absolute paths, as sort.Strings orders their strings
PathLess(a, b) == StrLess(PathStr(a), PathStr(b))

RECURSIVE SortPaths(_)
\* the paths of a finite set in ascending order of their strings
SortPaths(S) ==
    IF S = {} THEN <<>>
    ELSE LET m == CHOOSE x \in S : \A y \in S \ {x} : PathLess(x, y)
         IN  <<m>> \o SortPaths(S \ {m})

RECURSIVE SortNames(_)
\* names in ascending byte order, as os.ReadDir returns directory entries
SortNames(S) ==
    IF S = {} THEN <<>>
    ELSE LET m == CHOOSE x \in S : \A y \in S \ {x} : StrLess(x, y)
         IN  <<m>> \o SortNames(S \ {m})

Range(s) == {s[i] : i \in 1..Len(s)}


-----------------------------------------------------------------------------
(* The universe of the model: two package source trees, two target         *)
(* directories and a directory outside of both.                            *)

src_s == << <<"s">> >>           \* /s, the source of package A
src_r == << <<"r">> >>           \* /r, the source of package B
tgt_t == << <<"t">> >>           \* /t, a target directory
tgt_u == << <<"u">> >>           \* /u, another target directory
ext_z == << <<"x">>, <<"y">>, <<"z">> >>   \* /x/y/z, an unrelated directory

n_a == <<"a">>
n_b == <<"b">>
n_d == <<"d">>
n_e == <<"e">>
n_c == <<"c">>
n_f == <<"f">>
n_g == <<"g">>
n_git == <<".", "g", "i", "t">>

DirNode == [kind |-> "dir", abs |-> FALSE, dest |-> <<>>]
FileNode == [kind |-> "file", abs |-> FALSE, dest |-> <<>>]
LinkNode(isAbs, segs) == [kind |-> "link", abs |-> isAbs, dest |-> segs]

\* the filesystem before the first call: the source trees
\*   /s/a  /s/d/f  /s/d/.git  /s/d/e/c/g      /r/a
\* and the empty directories /t, /u and /x/y/z
InitialFs ==
    LET dirs == { <<>>, src_s, src_r, tgt_t, tgt_u,
                  << <<"x">> >>, << <<"x">>, <<"y">> >>, ext_z,
                  src_s \o <<n_d>>, src_s \o <<n_d, n_e>>,
                  src_s \o <<n_d, n_e, n_c>> }
        files == { src_s \o <<n_a>>, src_s \o <<n_d, n_f>>,
                   src_s \o <<n_d, n_git>>, src_s \o <<n_d, n_e, n_c, n_g>>,
                   src_r \o <<n_a>> }
    IN  [p \in dirs \cup files |-> IF p \in dirs THEN DirNode ELSE FileNode]

\* the patterns the fold, no_fold and ignore lists are drawn from
NoFoldPool == { <<"d", "/", "e", "/", "c">>, <<"e">>, <<"*", "/", "e">> }
FoldPool == { <<"d">>, <<"d", "/", "e">> }
IgnorePool == { <<"f">>, <<"e", "/", "c">> }


-----------------------------------------------------------------------------
(* The Path Matcher of the configuration and the one of the linker.        *)

\* a matcher that also accepts a pattern found inside a segment's name
ConfigMatchesInside(pattern, path) == pattern = path \/ Contains(path, pattern)

\* a matcher that compares whole segments only
ConfigMatchesWhole(pattern, path) ==
    \/ pattern = path
    \/ HasPrefix(path, pattern \o <<SLASH>>)
    \/ \E startIdx \in 0..(Len(Split(path)) - Len(Split(pattern))) :
           \A i \in 1..Len(Split(pattern)) :
               Match(Split(pattern)[i], Split(path)[startIdx + i])

\* Config.matchesPath, used for the ignore patterns
ConfigMatchesPath(pattern, path) ==
    LET pathParts == Split(path)
        patternParts == Split(pattern)
        np == Len(pathParts)
        nq == Len(patternParts)
    IN  IF pattern = path THEN TRUE
        ELSE IF HasPrefix(path, pattern \o <<SLASH>>) THEN TRUE
        ELSE IF nq > 1
        THEN \/ \E startIdx \in 0..(np - nq) :
                    \A i \in 1..nq : Match(patternParts[i], pathParts[startIdx + i])
             \/ Contains(path, pattern)
             \/ \E startIdx \in 0..(np - 1) :
                    /\ np - startIdx >= nq
                    /\ \A i \in 1..nq :
                           \/ Match(patternParts[i], pathParts[startIdx + i])
                           \/ Contains(pathParts[startIdx + i], patternParts[i])
        ELSE \/ Match(pattern, path)
             \/ \E i \in 1..np : Match(pattern, pathParts[i])

\* Linker.matchesPath, used for the fold and no_fold patterns
LinkerMatchesPath(pattern, path) ==
    LET pathParts == Split(path)
        patternParts == Split(pattern)
    IN  IF pattern = path THEN TRUE
        ELSE IF Match(pattern, path) THEN TRUE
        ELSE IF HasPrefix(path, pattern \o <<SLASH>>) THEN TRUE
        ELSE IF Len(pathParts) >= Len(patternParts)
        THEN \A i \in 1..Len(patternParts) : Match(patternParts[i], pathParts[i])
        ELSE FALSE

\* var defaultIgnorePatterns
defaultIgnorePatterns ==
    << <<".", "D", "S", "_", "S", "t", "o", "r", "e">>,
       <<".", "g", "i", "t", "*">>,
       <<"R", "E", "A", "D", "M", "E", "*">>,
       <<"L", "I", "C", "E", "N", "S", "E", "*">>,
       <<"C", "O", "P", "Y", "I", "N", "G">> >>

\* Config.IgnoreGlobs as Validate computes it: the defaults, then the own ones
IgnoreGlobs(c) == defaultIgnorePatterns \o c.Ignore

\* the package-relative paths of the entries of the two source trees
KnownRelPaths ==
    { Tail(PathStr(Tail(p))) : p \in {q \in DOMAIN InitialFs :
                                   Len(q) > 1 /\ <<q[1]>> \in {src_s, src_r}} }

\* Config.matchesPath on the patterns and paths of the universe, computed
\* once: the matcher is a pure function
ConfigMatchTable ==
    [x \in (Range(defaultIgnorePatterns) \cup IgnorePool) \X KnownRelPaths |->
        ConfigMatchesPath(x[1], x[2])]

ConfigMatches(pattern, path) ==
    IF <<pattern, path>> \in DOMAIN ConfigMatchTable
    THEN ConfigMatchTable[<<pattern, path>>]
    ELSE ConfigMatchesPath(pattern, path)

\* Config.ShouldIgnore
ShouldIgnore(c, path) ==
    LET globs == IgnoreGlobs(c)
    IN  \E i \in 1..Len(globs) : ConfigMatches(globs[i], path)

\* Linker.matchesPath on the patterns and paths of the universe, computed
\* once
LinkerMatchTable ==
    [x \in (NoFoldPool \cup FoldPool) \X KnownRelPaths |->
        LinkerMatchesPath(x[1], x[2])]

LinkerMatches(pattern, path) ==
    IF <<pattern, path>> \in DOMAIN LinkerMatchTable
    THEN LinkerMatchTable[<<pattern, path>>]
    ELSE LinkerMatchesPath(pattern, path)

\* the package-relative path the walk computes for an entry of directory
\* `source` (linkDirectory) and for a directory name (shouldFold)
RelativePath(source, pkg, name) ==
    LET trimmed == TrimPrefix(TrimPrefix(PathStr(source), PathStr(pkg.Source)),
                              <<SLASH>>)
    IN  JoinRel(trimmed, name)

RECURSIVE NoFoldMatchScan(_, _, _)
\* a no_fold loop that only asks whether an entry matches relativePath
NoFoldMatchScan(noFold, relativePath, i) ==
    IF i > Len(noFold) THEN FALSE
    ELSE IF LinkerMatches(noFold[i], relativePath) THEN TRUE
    ELSE NoFoldMatchScan(noFold, relativePath, i + 1)

RECURSIVE NoFoldScan(_, _, _)
\* the no_fold loop of shouldFold from index i on: TRUE when some entry
\* forbids the fold (it matches, or it names a path beneath relativePath)
NoFoldScan(noFold, relativePath, i) ==
    IF i > Len(noFold) THEN FALSE
    ELSE IF LinkerMatches(noFold[i], relativePath) THEN TRUE
    ELSE IF HasPrefix(noFold[i], relativePath \o <<SLASH>>) THEN TRUE
    ELSE NoFoldScan(noFold, relativePath, i + 1)

\* a fold decision that looks at the fold patterns first
FoldBeforeNoFold(dirName, currentPath, pkg) ==
    IF \E i \in 1..Len(pkg.Fold) :
           LinkerMatches(pkg.Fold[i], RelativePath(currentPath, pkg, dirName))
    THEN TRUE
    ELSE IF NoFoldScan(pkg.NoFold, RelativePath(currentPath, pkg, dirName), 1)
    THEN FALSE
    ELSE pkg.DefaultFold

\* Linker.shouldFold
shouldFold(dirName, currentPath, pkg) ==
    LET relativePath == RelativePath(currentPath, pkg, dirName)
    IN  IF NoFoldScan(pkg.NoFold, relativePath, 1) THEN FALSE
        ELSE IF \E i \in 1..Len(pkg.Fold) : LinkerMatches(pkg.Fold[i], relativePath)
        THEN TRUE
        ELSE pkg.DefaultFold

-----------------------------------------------------------------------------
(* Lexical path functions (package path/filepath).                         *)

DotDot == <<".", ".">>

\* filepath.Dir of a clean absolute path
Dir(p) == IF p = <<>> THEN <<>> ELSE SubSeq(p, 1, Len(p) - 1)

RECURSIVE CommonLen(_, _)
CommonLen(a, b) ==
    IF a = <<>> \/ b = <<>> \/ Head(a) # Head(b) THEN 0
    ELSE 1 + CommonLen(Tail(a), Tail(b))

\* filepath.Rel(basepath, targpath) for clean absolute paths: the segments
\* of the relative path (<<>> is ".")
Rel(basepath, targpath) ==
    LET k == CommonLen(basepath, targpath)
    IN  [i \in 1..(Len(basepath) - k) |-> DotDot]
            \o SubSeq(targpath, k + 1, Len(targpath))

RECURSIVE JoinClean(_, _)
\* filepath.Join(dir, rel): the cleaned path, ".." resolved lexically
JoinClean(dir, rel) ==
    IF rel = <<>> THEN dir
    ELSE IF Head(rel) = DotDot THEN JoinClean(Dir(dir), Tail(rel))
    ELSE JoinClean(Append(dir, Head(rel)), Tail(rel))

-----------------------------------------------------------------------------
(* The filesystem: a function from the physical paths that exist to nodes. *)
(* A symlink keeps its destination as written (absolute or relative); the  *)
(* kernel resolves it from the directory that physically holds the link.   *)

Children(f, d) ==
    {p \in DOMAIN f : Len(p) = Len(d) + 1 /\ SubSeq(p, 1, Len(d)) = d}

RECURSIVE Walk(_, _, _, _, _)
\* path resolution from the existing directory cur along the segments rest.
\* err "ok": path is the physical path of the entry; "ENOENT" with
\* creatable: only the last component is missing and path is where it would
\* be made.
Walk(f, cur, rest, followLast, hops) ==
    IF rest = <<>> THEN [err |-> "ok", path |-> cur, creatable |-> FALSE]
    ELSE LET seg == Head(rest)
             more == Tail(rest)
             p == Append(cur, seg)
         IN  IF seg = DotDot THEN Walk(f, Dir(cur), more, followLast, hops)
             ELSE IF p \notin DOMAIN f
             THEN [err |-> "ENOENT", path |-> p, creatable |-> more = <<>>]
             ELSE IF f[p].kind = "link" /\ (more # <<>> \/ followLast)
             THEN IF hops = 0
                  THEN [err |-> "ELOOP", path |-> p, creatable |-> FALSE]
                  ELSE Walk(f, IF f[p].abs THEN <<>> ELSE cur,
                            f[p].dest \o more, followLast, hops - 1)
             ELSE IF more = <<>>
             THEN [err |-> "ok", path |-> p, creatable |-> FALSE]
             ELSE IF f[p].kind = "dir" THEN Walk(f, p, more, followLast, hops)
             ELSE [err |-> "ENOTDIR", path |-> p, creatable |-> FALSE]

\* os.Lstat: the last component is not followed
Lstat(f, p) == Walk(f, <<>>, p, FALSE, MaxSymlinkHops)

\* os.Stat: every symlink is followed
Stat(f, p) == Walk(f, <<>>, p, TRUE, MaxSymlinkHops)

\* os.IsNotExist
IsNotExist(err) == err = "ENOENT"

\* os.Remove: unlinks a file or symlink, removes an empty directory.
\* denied: the paths whose removal the system refuses (EACCES).
Remove(f, p, denied) ==
    LET r == Lstat(f, p)
    IN  IF r.err # "ok" THEN [fs |-> f, err |-> r.err]
        ELSE IF p \in denied \/ r.path = <<>> THEN [fs |-> f, err |-> "EACCES"]
        ELSE IF f[r.path].kind = "dir" /\ Children(f, r.path) # {}
        THEN [fs |-> f, err |-> "ENOTEMPTY"]
        ELSE [fs |-> [q \in DOMAIN f \ {r.path} |-> f[q]], err |-> "ok"]

\* os.Mkdir
Mkdir(f, p) ==
    LET r == Lstat(f, p)
    IN  IF r.err = "ok" THEN [fs |-> f, err |-> "EEXIST"]
        ELSE IF r.err = "ENOENT" /\ r.creatable
        THEN [fs |-> [q \in DOMAIN f \cup {r.path} |->
                         IF q = r.path THEN DirNode ELSE f[q]],
              err |-> "ok"]
        ELSE [fs |-> f, err |-> r.err]

RECURSIVE MkdirAll(_, _)
\* os.MkdirAll
MkdirAll(f, p) ==
    LET st == Stat(f, p)
    IN  IF st.err = "ok"
        THEN IF f[st.path].kind = "dir" THEN [fs |-> f, err |-> "ok"]
             ELSE [fs |-> f, err |-> "ENOTDIR"]
        ELSE LET up == IF Len(p) > 1 THEN MkdirAll(f, Dir(p))
                       ELSE [fs |-> f, err |-> "ok"]
             IN  IF up.err # "ok" THEN up
                 ELSE LET mk == Mkdir(up.fs, p)
                          ls == Lstat(up.fs, p)
                      IN  IF mk.err = "ok" THEN mk
                          ELSE IF ls.err = "ok" /\ up.fs[ls.path].kind = "dir"
                          THEN [fs |-> up.fs, err |-> "ok"]
                          ELSE [fs |-> up.fs, err |-> mk.err]

\* os.Symlink(oldname, newname): oldname is stored as written
Symlink(f, isAbs, segs, p) ==
    LET r == Lstat(f, p)
    IN  IF r.err = "ok" THEN [fs |-> f, err |-> "EEXIST"]
        ELSE IF r.err = "ENOENT" /\ r.creatable
        THEN [fs |-> [q \in DOMAIN f \cup {r.path} |->
                         IF q = r.path THEN LinkNode(isAbs, segs) ELSE f[q]],
              err |-> "ok"]
        ELSE [fs |-> f, err |-> r.err]

\* os.ReadDir: the entries of a directory, sorted by name.
\* unreadable: the directories the system refuses to list (EACCES).
ReadDir(f, p, unreadable) ==
    LET st == Stat(f, p)
    IN  IF st.err # "ok" THEN [err |-> st.err, entries |-> <<>>]
        ELSE IF f[st.path].kind # "dir" THEN [err |-> "ENOTDIR", entries |-> <<>>]
        ELSE IF p \in unreadable THEN [err |-> "EACCES", entries |-> <<>>]
        ELSE LET names == SortNames({q[Len(q)] : q \in Children(f, st.path)})
             IN  [err |-> "ok",
                  entries |-> [i \in 1..Len(names) |->
                      [Name |-> names[i],
                       IsDir |-> f[Append(st.path, names[i])].kind = "dir"]]]

\* what a path resolves to when every symlink is followed: the physical
\* path of the entry, or <<"!">> when it resolves to nothing
Resolved(f, p) ==
    LET st == Stat(f, p) IN IF st.err = "ok" THEN st.path ELSE << <<"!">> >>

-----------------------------------------------------------------------------
(* The Lock Store (package lockfile).                                      *)

\* a record is written only for a target that has none
AddSymlinkOnce(l, target, source, isFolded, now) ==
    [q \in DOMAIN l \cup {target} |->
        IF q \in DOMAIN l THEN l[q]
        ELSE [Source |-> source, Target |-> target, Created |-> now,
              IsFolded |-> isFolded]]

\* LockFile.AddSymlink
AddSymlink(l, target, source, isFolded, now) ==
    [q \in DOMAIN l \cup {target} |->
        IF q = target
        THEN [Source |-> source, Target |-> target, Created |-> now,
              IsFolded |-> isFolded]
        ELSE l[q]]

\* the record is kept
KeepSymlink(l, target) == l

\* LockFile.RemoveSymlink
RemoveSymlink(l, target) == [q \in DOMAIN l \ {target} |-> l[q]]

\* the records in descending order of their keys
SortedDescending(l) ==
    LET keys == SortPaths(DOMAIN l)
    IN  [i \in 1..Len(keys) |-> l[keys[Len(keys) + 1 - i]]]

\* SymlinkMap.Sorted: the records in ascending order of their keys
Sorted(l) ==
    LET keys == SortPaths(DOMAIN l) IN [i \in 1..Len(keys) |-> l[keys[i]]]

\* readlink alone: the destination as written in the symlink
LinkDestAsWritten(f, target) == f[Lstat(f, target).path].dest

\* the absolute destination the code computes for the symlink at target:
\* readlink, joined lexically to the target's directory when relative
LinkDestAbs(f, target) ==
    LET node == f[Lstat(f, target).path]
    IN  IF node.abs THEN node.dest ELSE JoinClean(Dir(target), node.dest)

RECURSIVE DeadScanAnyChange(_, _, _, _)
\* a scan that also reports a target that is no longer a symlink
DeadScanAnyChange(links, f, i, dead) ==
    IF i > Len(links) THEN [err |-> "nil", dead |-> dead]
    ELSE LET link == links[i]
             targetInfo == Lstat(f, link.Target)
         IN  IF targetInfo.err # "ok"
             THEN IF IsNotExist(targetInfo.err)
                  THEN DeadScanAnyChange(links, f, i + 1, Append(dead, link.Target))
                  ELSE [err |-> targetInfo.err, dead |-> <<>>]
             ELSE IF f[targetInfo.path].kind # "link"
             THEN DeadScanAnyChange(links, f, i + 1, Append(dead, link.Target))
             ELSE LET linkDestAbs == LinkDestAbs(f, link.Target)
                  IN  IF IsNotExist(Stat(f, linkDestAbs).err)
                           \/ linkDestAbs # link.Source
                      THEN DeadScanAnyChange(links, f, i + 1,
                                             Append(dead, link.Target))
                      ELSE DeadScanAnyChange(links, f, i + 1, dead)

RECURSIVE DeadScan(_, _, _, _)
\* the loop of GetDeadSymlinks from record i on; dead is the list so far
DeadScan(links, f, i, dead) ==
    IF i > Len(links) THEN [err |-> "nil", dead |-> dead]
    ELSE LET link == links[i]
             targetInfo == Lstat(f, link.Target)
         IN  IF targetInfo.err # "ok"
             THEN IF IsNotExist(targetInfo.err)
                  THEN DeadScan(links, f, i + 1, Append(dead, link.Target))
                  ELSE [err |-> targetInfo.err, dead |-> <<>>]
             ELSE IF f[targetInfo.path].kind # "link"
             THEN DeadScan(links, f, i + 1, dead)
             ELSE LET linkDestAbs == LinkDestAbs(f, link.Target)
                  IN  IF IsNotExist(Stat(f, linkDestAbs).err)
                      THEN DeadScan(links, f, i + 1, Append(dead, link.Target))
                      ELSE IF linkDestAbs # link.Source
                      THEN DeadScan(links, f, i + 1, Append(dead, link.Target))
                      ELSE DeadScan(links, f, i + 1, dead)

\* LockFile.GetDeadSymlinks
GetDeadSymlinks(l, f) == DeadScan(Sorted(l), f, 1, <<>>)

-----------------------------------------------------------------------------
(* The lock file (LockFile.Save, Load, New).  A file that parses is kept   *)
(* as the JSON document it holds: the version, the timestamp, and the      *)
(* members of "symlinks" in the order they are written; encoding/json      *)
(* writes every string coerced to valid UTF-8.                             *)

CurrentVersion == "1.0"

\* a JSON string as encoding/json writes it: each invalid byte becomes
\* U+FFFD
ToValidUTF8(str) ==
    [i \in 1..Len(str) |-> IF str[i] = InvalidByte THEN ReplacementChar ELSE str[i]]

\* a path string as written: its segments coerced
EncodePath(p) == [i \in 1..Len(p) |-> ToValidUTF8(p[i])]

\* a record as written (time.Time is written as its instant)
EncodeSymlink(link) ==
    [Source |-> EncodePath(link.Source), Target |-> EncodePath(link.Target),
     Created |-> link.Created, IsFolded |-> link.IsFolded]

\* the members of the "symlinks" object: the map's keys in sorted order
\* (encoding/json sorts the keys of a map), each written with its record
EncodeMap(l) ==
    LET keys == SortPaths(DOMAIN l)
    IN  [i \in 1..Len(keys) |->
            [key |-> EncodePath(keys[i]), val |-> EncodeSymlink(l[keys[i]])]]

\* the documents of the lock file
AbsentFile == [kind |-> "absent", version |-> "", updated |-> 0,
               isNull |-> TRUE, symlinks |-> <<>>]
GarbageFile == [AbsentFile EXCEPT !.kind = "garbage"]
JsonFile(version, updated, isNull, members) ==
    [kind |-> "json", version |-> version, updated |-> updated,
     isNull |-> isNull, symlinks |-> members]

\* json.MarshalIndent(l)
Marshal(h, l) ==
    JsonFile(h.Version, h.Updated, h.Symlinks = "nil",
             IF h.Symlinks = "nil" THEN <<>> ELSE EncodeMap(l))

RECURSIVE DecodeMap(_, _, _)
\* json.Unmarshal into a map: the members are stored one after another, a
\* later member replacing an earlier one with the same key
DecodeMap(members, i, l) ==
    IF i > Len(members) THEN l
    ELSE DecodeMap(members, i + 1,
                   [q \in DOMAIN l \cup {members[i].key} |->
                       IF q = members[i].key THEN members[i].val ELSE l[q]])

\* the LockFile header: everything but the record map
Header(version, updated, symlinks) ==
    [Exists |-> TRUE, Version |-> version, Updated |-> updated,
     Symlinks |-> symlinks]

\* no LockFile: what a failed Load returns (nil)
NoStore == [Exists |-> FALSE, Version |-> "", Updated |-> 0, Symlinks |-> "nil"]

\* lockfile.New
New(now) == [err |-> "nil", header |-> Header(CurrentVersion, now, "map"),
             lock |-> << >>]

\* json.Unmarshal(data, &lock): a "symlinks" member that is null or
\* missing leaves the map nil
Unmarshal(file) ==
    IF file.kind # "json"
    THEN [err |-> "parse", header |-> NoStore, lock |-> << >>]
    ELSE [err |-> "nil",
          header |-> Header(file.version, file.updated,
                            IF file.isNull THEN "nil" ELSE "map"),
          lock |-> IF file.isNull THEN << >>
                   ELSE DecodeMap(file.symlinks, 1, << >>)]

\* a Load that returns whatever parses
ParsedAnyVersion(r) ==
    IF r.err # "nil" THEN r ELSE [r EXCEPT !.header.Symlinks = "map"]

\* Load once the file is unmarshalled (lockfile.go:70-82): the version
\* check, and a nil map replaced by an empty one
Parsed(r) ==
    IF r.err # "nil" THEN r
    ELSE IF r.header.Version # CurrentVersion
    THEN [err |-> "version", header |-> NoStore, lock |-> << >>]
    ELSE [r EXCEPT !.header.Symlinks = "map"]

\* lockfile.Load: readErr is the error of os.ReadFile
LoadFile(file, readErr, now) ==
    IF readErr # "ok"
    THEN IF IsNotExist(readErr) THEN New(now)
         ELSE [err |-> "read", header |-> NoStore, lock |-> << >>]
    ELSE Parsed(Unmarshal(file))

\* os.ReadFile of the lock file
ReadFile(file, denied) ==
    IF file.kind = "absent" THEN "ENOENT" ELSE IF denied THEN "EACCES" ELSE "ok"

\* the records of a lock file, none when it holds no document
RecordsOf(file) ==
    IF file.kind = "json" /\ ~file.isNull THEN DecodeMap(file.symlinks, 1, << >>)
    ELSE << >>

\* a Save that keeps the records the file holds and the store lacks
SaveFileMerged(h, l, file, denied, now) ==
    IF denied
    THEN [err |-> "write", header |-> [h EXCEPT !.Updated = now], file |-> file]
    ELSE [err |-> "nil", header |-> [h EXCEPT !.Updated = now],
          file |-> Marshal([h EXCEPT !.Updated = now],
                           [q \in DOMAIN l \cup DOMAIN RecordsOf(file) |->
                               IF q \in DOMAIN l THEN l[q]
                               ELSE RecordsOf(file)[q]])]

\* LockFile.Save: the timestamp is set before anything is written
SaveFile(h, l, file, denied, now) ==
    IF denied
    THEN [err |-> "write", header |-> [h EXCEPT !.Updated = now], file |-> file]
    ELSE [err |-> "nil", header |-> [h EXCEPT !.Updated = now],
          file |-> Marshal([h EXCEPT !.Updated = now], l)]

-----------------------------------------------------------------------------
(* The tree linker (package linker).  st is the state a call works on:     *)
(* [fs, lock, Created, Removed, Errors]; ctx is what the call is given:    *)
(* [cfg, dryRun, now, denied, unreadable].                                 *)

Err(kind, path) == [kind |-> kind, path |-> path]

\* an entry of the record of what a call did, in the order it did it: a
\* dead link removed (from the filesystem and the Lock Store), a symlink
\* created
Event(ev, path) == [ev |-> ev, path |-> path]
Nil == Err("nil", <<>>)

\* os.MkdirAll whatever the mode
MkdirAllAlways(ctx, f, p) == MkdirAll(f, p)

\* the filesystem steps of the linker, each skipped in dry-run mode
\* ("if !l.dryRun { ... }")
MkdirAllUnlessDry(ctx, f, p) ==
    IF ctx.dryRun THEN [fs |-> f, err |-> "ok"] ELSE MkdirAll(f, p)

RemoveUnlessDry(ctx, f, p) ==
    IF ctx.dryRun THEN [fs |-> f, err |-> "ok"] ELSE Remove(f, p, ctx.denied)

SymlinkUnlessDry(ctx, f, source, target) ==
    IF ctx.dryRun THEN [fs |-> f, err |-> "ok"]
    ELSE Symlink(f, FALSE, Rel(Dir(target), source), target)

\* createSymlink from the call of os.Symlink on (linker.go:212-226); rm is
\* the outcome of the removal of the symlink found at target, if any
PlaceSymlink(ctx, st, source, target, isFolded, sl) ==
    IF sl.err # "ok" THEN [st |-> st, err |-> Err("symlink", target)]
    ELSE [st |-> [st EXCEPT !.fs = sl.fs,
                            !.lock = AddSymlink(@, target, source, isFolded,
                                                ctx.now),
                            !.Created = Append(@, target),
                            !.Log = Append(@, Event("created", target))],
          err |-> Nil]

\* createSymlink once the entry at target has been looked at: rm is the
\* outcome of the removal of the symlink found there, "ok" when there was
\* nothing to remove
ReplaceSymlink(ctx, st, source, target, isFolded, rm) ==
    IF rm.err # "ok" THEN [st |-> st, err |-> Err("remove", target)]
    ELSE PlaceSymlink(ctx, [st EXCEPT !.fs = rm.fs], source, target, isFolded,
                      SymlinkUnlessDry(ctx, rm.fs, source, target))

\* createSymlink that replaces whatever symlink it finds at target
ExistingTargetReplaced(ctx, st, source, target, isFolded, existingTarget) ==
    IF existingTarget.err # "ok"
    THEN ReplaceSymlink(ctx, st, source, target, isFolded,
                        [fs |-> st.fs, err |-> "ok"])
    ELSE IF st.fs[existingTarget.path].kind # "link"
    THEN [st |-> st, err |-> Err("conflict", target)]
    ELSE ReplaceSymlink(ctx, st, source, target, isFolded,
                        RemoveUnlessDry(ctx, st.fs, target))

\* createSymlink from os.Lstat(target) on (linker.go:187-210)
ExistingTarget(ctx, st, source, target, isFolded, existingTarget) ==
    IF existingTarget.err # "ok"
    THEN ReplaceSymlink(ctx, st, source, target, isFolded,
                        [fs |-> st.fs, err |-> "ok"])
    ELSE IF st.fs[existingTarget.path].kind # "link"
    THEN [st |-> st, err |-> Err("conflict", target)]
    ELSE IF LinkDestAbs(st.fs, target) = source
    THEN [st |-> [st EXCEPT !.lock = AddSymlink(@, target, source, isFolded,
                                                ctx.now)],
          err |-> Nil]
    ELSE ReplaceSymlink(ctx, st, source, target, isFolded,
                        RemoveUnlessDry(ctx, st.fs, target))

\* createSymlink after os.MkdirAll(targetDir) (linker.go:181-185): what
\* MkdirAll made stays made when it fails
TargetDirMade(ctx, st, source, target, isFolded, mk) ==
    IF mk.err # "ok"
    THEN [st |-> [st EXCEPT !.fs = mk.fs], err |-> Err("mkdir", Dir(target))]
    ELSE ExistingTarget(ctx, [st EXCEPT !.fs = mk.fs], source, target, isFolded,
                        Lstat(mk.fs, target))

\* Linker.createSymlink
createSymlink(ctx, st, source, target, isFolded) ==
    TargetDirMade(ctx, st, source, target, isFolded,
                  MkdirAllUnlessDry(ctx, st.fs, Dir(target)))

RECURSIVE linkDirectory(_, _, _, _, _)
RECURSIVE LinkEntries(_, _, _, _, _, _, _)

\* a loop body that records a folded directory as it records a file
LinkEntryUnflagged(ctx, st, entry, source, target, pkg) ==
    IF ShouldIgnore(ctx.cfg, RelativePath(source, pkg, entry.Name))
    THEN [st |-> st, err |-> Nil]
    ELSE IF entry.IsDir /\ ~shouldFold(entry.Name, source, pkg)
    THEN linkDirectory(ctx, st, Append(source, entry.Name),
                       Append(target, entry.Name), pkg)
    ELSE createSymlink(ctx, st, Append(source, entry.Name),
                       Append(target, entry.Name), FALSE)

\* the body of the loop of linkDirectory for one entry
LinkEntry(ctx, st, entry, source, target, pkg) ==
    IF ShouldIgnore(ctx.cfg, RelativePath(source, pkg, entry.Name))
    THEN [st |-> st, err |-> Nil]
    ELSE IF entry.IsDir
    THEN IF shouldFold(entry.Name, source, pkg)
         THEN createSymlink(ctx, st, Append(source, entry.Name),
                            Append(target, entry.Name), TRUE)
         ELSE linkDirectory(ctx, st, Append(source, entry.Name),
                            Append(target, entry.Name), pkg)
    ELSE createSymlink(ctx, st, Append(source, entry.Name),
                       Append(target, entry.Name), FALSE)

\* the loop of linkDirectory after entry i: r is what its body gave, and an
\* error ends the loop ("return err")
LinkEntriesAfter(ctx, r, entries, i, source, target, pkg) ==
    IF r.err # Nil THEN r
    ELSE LinkEntries(ctx, r.st, entries, i + 1, source, target, pkg)

\* the loop of linkDirectory over the directory's entries, from entry i on
LinkEntries(ctx, st, entries, i, source, target, pkg) ==
    IF i > Len(entries) THEN [st |-> st, err |-> Nil]
    ELSE LinkEntriesAfter(ctx, LinkEntry(ctx, st, entries[i], source, target, pkg),
                          entries, i, source, target, pkg)

\* linkDirectory once os.ReadDir(source) has returned rd
DirectoryRead(ctx, st, rd, source, target, pkg) ==
    IF rd.err # "ok" THEN [st |-> st, err |-> Err("readdir", source)]
    ELSE LinkEntries(ctx, st, rd.entries, 1, source, target, pkg)

\* Linker.linkDirectory
linkDirectory(ctx, st, source, target, pkg) ==
    DirectoryRead(ctx, st, ReadDir(st.fs, source, ctx.unreadable),
                  source, target, pkg)

\* Linker.linkPackage
linkPackage(ctx, st, pkg, targetBase) ==
    linkDirectory(ctx, st, pkg.Source, targetBase, pkg)

\* one removal that drops the record whatever os.Remove gave
RemovalAlways(st, target, rm) ==
    [st EXCEPT !.fs = rm.fs,
               !.lock = RemoveSymlink(@, target),
               !.Removed = Append(@, target),
               !.Log = Append(@, Event("removed", target))]

\* one removal that deletes the entry and keeps its record
RemovalUnrecorded(st, target, rm) ==
    IF rm.err # "ok" /\ ~IsNotExist(rm.err)
    THEN [st EXCEPT !.Errors = Append(@, Err("remove", target))]
    ELSE [st EXCEPT !.fs = rm.fs,
                    !.Removed = Append(@, target),
                    !.Log = Append(@, Event("removed", target))]

\* one removal of the loops of Link and Unlink: rm is what os.Remove gave
\* for target; an error other than "not exist" is recorded and the record
\* kept ("continue")
Removal(st, target, rm) ==
    IF rm.err # "ok" /\ ~IsNotExist(rm.err)
    THEN [st EXCEPT !.Errors = Append(@, Err("remove", target))]
    ELSE [st EXCEPT !.fs = rm.fs,
                    !.lock = RemoveSymlink(@, target),
                    !.Removed = Append(@, target),
                    !.Log = Append(@, Event("removed", target))]

RECURSIVE RemoveDead(_, _, _, _)
\* the reconcile loop of Link over the dead links, from index i on
RemoveDead(ctx, st, dead, i) ==
    IF i > Len(dead) THEN st
    ELSE RemoveDead(ctx,
                    Removal(st, dead[i], RemoveUnlessDry(ctx, st.fs, dead[i])),
                    dead, i + 1)

\* the package/target pairs in configuration order
Pairs(c) ==
    LET RECURSIVE Of(_)
        Of(i) == IF i > Len(c.Packages) THEN <<>>
                 ELSE [j \in 1..Len(c.Packages[i].Targets) |->
                          [pkg |-> c.Packages[i],
                           target |-> c.Packages[i].Targets[j]]] \o Of(i + 1)
    IN  Of(1)

\* the body of the link loop of Link: an error of linkPackage is recorded
PackageLinked(r) ==
    IF r.err # Nil THEN [r.st EXCEPT !.Errors = Append(@, r.err)] ELSE r.st

\* a link loop that stops at the first pair that returns an error
RECURSIVE LinkPairsUntilError(_, _, _, _)
LinkPairsUntilError(ctx, st, pairs, i) ==
    IF i > Len(pairs) THEN st
    ELSE IF linkPackage(ctx, st, pairs[i].pkg, pairs[i].target).err # Nil
         THEN PackageLinked(linkPackage(ctx, st, pairs[i].pkg, pairs[i].target))
         ELSE LinkPairsUntilError(ctx,
                  linkPackage(ctx, st, pairs[i].pkg, pairs[i].target).st,
                  pairs, i + 1)

RECURSIVE LinkPairs(_, _, _, _)
\* the link loop of Link over the package/target pairs, from pair i on
LinkPairs(ctx, st, pairs, i) ==
    IF i > Len(pairs) THEN st
    ELSE LinkPairs(ctx,
                   PackageLinked(linkPackage(ctx, st, pairs[i].pkg,
                                             pairs[i].target)),
                   pairs, i + 1)

NewResult(f, l) ==
    [fs |-> f, lock |-> l, Created |-> <<>>, Removed |-> <<>>, Errors |-> <<>>,
     Log |-> <<>>]

\* a Link that goes on after a failed scan, with the dead links found so far
ScanErrorIgnored(ctx, f, l, scan) ==
    [fatal |-> FALSE,
     st |-> LinkPairs(ctx, RemoveDead(ctx, NewResult(f, l), scan.dead, 1),
                      Pairs(ctx.cfg), 1)]

\* a Link that walks the packages first and removes the dead links last
LinkedBeforeReconciled(ctx, f, l, scan) ==
    IF scan.err # "nil" THEN [fatal |-> TRUE, st |-> NewResult(f, l)]
    ELSE [fatal |-> FALSE,
          st |-> RemoveDead(ctx, LinkPairs(ctx, NewResult(f, l), Pairs(ctx.cfg), 1),
                            scan.dead, 1)]

\* Link once GetDeadSymlinks has returned scan
DeadLinksFound(ctx, f, l, scan) ==
    IF scan.err # "nil" THEN [fatal |-> TRUE, st |-> NewResult(f, l)]
    ELSE [fatal |-> FALSE,
          st |-> LinkPairs(ctx, RemoveDead(ctx, NewResult(f, l), scan.dead, 1),
                           Pairs(ctx.cfg), 1)]

\* Linker.Link: fatal is the error returned in place of a result
LinkCall(ctx, f, l) == DeadLinksFound(ctx, f, l, GetDeadSymlinks(l, f))

RECURSIVE UnlinkLoop(_, _, _, _)
\* the loop of Unlink over the records as sorted at its start
UnlinkLoop(ctx, st, links, i) ==
    IF i > Len(links) THEN st
    ELSE UnlinkLoop(ctx,
                    Removal(st, links[i].Target,
                            RemoveUnlessDry(ctx, st.fs, links[i].Target)),
                    links, i + 1)

\* Linker.Unlink
UnlinkCall(ctx, f, l) ==
    [fatal |-> FALSE, st |-> UnlinkLoop(ctx, NewResult(f, l), Sorted(l), 1)]

-----------------------------------------------------------------------------
(* The configurations and the initial states.                              *)

\* the sequences over Pool of length at most n
RECURSIVE SeqsUpTo(_, _)
SeqsUpTo(Pool, n) ==
    IF n = 0 THEN {<<>>}
    ELSE LET shorter == SeqsUpTo(Pool, n - 1)
         IN  shorter \cup {Append(q, x) : q \in shorter, x \in Pool}

Package(source, targets, noFold, fold, defaultFold) ==
    [Source |-> source, Targets |-> targets, NoFold |-> noFold, Fold |-> fold,
     DefaultFold |-> defaultFold]

\* package B: /r into one target, no folding
PackageB(target) == Package(src_r, <<target>>, <<>>, <<>>, FALSE)

\* the configurations of the fold specification: package A into /t, with
\* every choice of its pattern lists
FoldConfigs ==
    { [Packages |-> << Package(src_s, <<tgt_t>>, nf, fo, df) >>, Ignore |-> ig] :
        nf \in SeqsUpTo(NoFoldPool, MaxPatterns),
        fo \in SeqsUpTo(FoldPool, MaxPatterns),
        ig \in SeqsUpTo(IgnorePool, MaxPatterns),
        df \in BOOLEAN }

\* the configurations of the main specification: package A into /t,
\* folding by default or not; package A into /t and /u; package B into /u;
\* packages B and A both into /t
Configs ==
    { [Packages |-> << Package(src_s, <<tgt_t>>, <<>>, <<>>, df) >>,
       Ignore |-> <<>>] : df \in BOOLEAN }
    \cup
    { [Packages |-> << Package(src_s, <<tgt_t, tgt_u>>, <<>>, <<>>, FALSE) >>,
       Ignore |-> <<>>],
      [Packages |-> << PackageB(tgt_u) >>, Ignore |-> <<>>],
      [Packages |-> << PackageB(tgt_t),
                       Package(src_s, <<tgt_t>>, <<>>, <<>>, FALSE) >>,
       Ignore |-> <<>>] }

NoResult ==
    [op |-> "none", dryRun |-> FALSE, fatal |-> FALSE, Created |-> <<>>,
     Removed |-> <<>>, Errors |-> <<>>, denied |-> {}, unreadable |-> {},
     Log |-> <<>>]

\* a slice: the array it is a window on, its length and its capacity; the
\* nil slice has no array
Slice(arr, len, cap) == [arr |-> arr, len |-> len, cap |-> cap]
NilSlice == Slice(0, 0, 0)

\* the elements of slice s in heap, a sequence of arrays
SliceOf(heap, s) == IF s.arr = 0 THEN <<>> ELSE SubSeq(heap[s.arr], 1, s.len)

\* a slice literal whose array has one slot to spare
SpareCap(elems) == Len(elems) + 1

\* the capacity of the slice that a slice literal makes: its length
LiteralCap(elems) == Len(elems)

\* the array of a slice of capacity cap that holds elems, the unused slots
\* holding the empty string
ArrayOf(elems, cap) == [k \in 1..cap |-> IF k <= Len(elems) THEN elems[k] ELSE <<>>]

\* the capacity append gives the new array when the old one is too small
\* (runtime.growslice, below 256 elements and before rounding to a size
\* class): twice the old capacity, or what is needed when that is more
GrowCap(oldCap, needed) == IF needed > 2 * oldCap THEN needed ELSE 2 * oldCap

\* append(s, xs...): within the capacity of s the elements are written into
\* the array of s, beyond it into a new array that the elements of s are
\* copied to
GoAppend(heap, s, xs) ==
    IF Len(xs) = 0 THEN [heap |-> heap, slice |-> s]
    ELSE IF s.len + Len(xs) <= s.cap
    THEN [heap |-> [heap EXCEPT ![s.arr] =
                       [k \in 1..s.cap |->
                           IF s.len < k /\ k <= s.len + Len(xs)
                           THEN xs[k - s.len] ELSE @[k]]],
          slice |-> Slice(s.arr, s.len + Len(xs), s.cap)]
    ELSE [heap |-> Append(heap,
                          ArrayOf(SliceOf(heap, s) \o xs,
                                  GrowCap(s.cap, s.len + Len(xs)))),
          slice |-> Slice(Len(heap) + 1, s.len + Len(xs),
                          GrowCap(s.cap, s.len + Len(xs)))]

\* no Config at this place yet
NoConfig ==
    [made |-> FALSE, ok |-> FALSE, Ignore |-> <<>>, IgnoreGlobs |-> NilSlice,
     validated |-> 0, err |-> FALSE]

\* package config when the process starts: the variable
\* defaultIgnorePatterns is a slice on the array of its literal
InitialMemory ==
    [heap |-> << ArrayOf(defaultIgnorePatterns, LiteralCap(defaultIgnorePatterns)) >>,
     defaults |-> Slice(1, Len(defaultIgnorePatterns),
                        LiteralCap(defaultIgnorePatterns)),
     configs |-> [i \in 1..MaxConfigs |-> NoConfig]]

\* an invocation of the command that has not started
NotStarted ==
    [pc |-> "idle", cmd |-> "none", dryRun |-> FALSE, verbose |-> FALSE,
     cfg |-> [Packages |-> <<>>, Ignore |-> <<>>],
     header |-> NoStore, lock |-> << >>,
     Created |-> <<>>, Errors |-> <<>>, fatal |-> "none",
     loadedAt |-> 0, passedAt |-> 0, saves |-> 0, savedAt |-> 0,
     tracked |-> <<>>, dead |-> <<>>]

\* the state before the first call: a configuration, a filesystem, an
\* empty Lock Store
InitOn(configs, trees) ==
    /\ cfg \in configs
    /\ fs \in trees
    /\ lock = << >>
    /\ result = NoResult
    /\ prev = [fs |-> fs, lock |-> << >>, result |-> NoResult,
               header |-> Header(CurrentVersion, 0, "map"), disk |-> AbsentFile]
    /\ clock = 0
    /\ steps = 0
    /\ header = Header(CurrentVersion, 0, "map")
    /\ disk = AbsentFile
    /\ calls = [fresh |-> TRUE, ops |-> <<>>]
    /\ runs = [p \in 1..MaxRuns |-> NotStarted]
    /\ mem = InitialMemory

InitWith(configs) == InitOn(configs, {InitialFs})

\* no matcher query
NoProbe ==
    [asked |-> FALSE, pattern |-> <<>>, path |-> <<>>, name |-> <<>>,
     config |-> FALSE, linker |-> FALSE, below |-> FALSE]

Init == InitWith(Configs) /\ probe = NoProbe

InitFold == InitWith(FoldConfigs) /\ probe = NoProbe

-----------------------------------------------------------------------------
(* The operations.                                                         *)

Tick ==
    /\ steps < MaxSteps
    /\ steps' = steps + 1
    /\ clock' = clock + 1

Remember ==
    prev' = [fs |-> fs, lock |-> lock, result |-> result, header |-> header,
             disk |-> disk]

Context(dryRun, denied, unreadable) ==
    [cfg |-> cfg, dryRun |-> dryRun, now |-> clock, denied |-> denied,
     unreadable |-> unreadable]

Outcome(op, ctx, r) ==
    [op |-> op, dryRun |-> ctx.dryRun, fatal |-> r.fatal,
     Created |-> r.st.Created, Removed |-> r.st.Removed,
     Errors |-> r.st.Errors, denied |-> ctx.denied,
     unreadable |-> ctx.unreadable, Log |-> r.st.Log]

\* the call returns: the filesystem and the Lock Store are as it left them
Return(op, ctx, r) ==
    /\ fs' = r.st.fs
    /\ lock' = r.st.lock
    /\ result' = Outcome(op, ctx, r)

\* one run of Linker.Link on the current Lock Store
Link(dryRun, denied, unreadable) ==
    /\ Tick
    /\ Remember
    /\ Return("link", Context(dryRun, denied, unreadable),
              LinkCall(Context(dryRun, denied, unreadable), fs, lock))
    /\ UNCHANGED <<cfg, header, disk, calls, probe, runs, mem>>

\* one run of Linker.Unlink on the current Lock Store
Unlink(dryRun, denied) ==
    /\ Tick
    /\ Remember
    /\ Return("unlink", Context(dryRun, denied, {}),
              UnlinkCall(Context(dryRun, denied, {}), fs, lock))
    /\ UNCHANGED <<cfg, header, disk, calls, probe, runs, mem>>

\* what the user may put between two calls: entries of the target
\* directory /t, in the source tree /r a symlink to nothing, and in the
\* directory /x/y/z a symlink to nothing
UserEntries ==
    { [path |-> src_r \o <<n_b>>, node |-> LinkNode(TRUE, << <<"x">>, <<"n">> >>)],
      [path |-> tgt_t \o <<n_a>>, node |-> FileNode],
      [path |-> tgt_t \o <<n_a>>, node |-> LinkNode(TRUE, src_s \o <<n_a>>)],
      [path |-> tgt_t \o <<n_a>>, node |-> LinkNode(TRUE, << <<"x">>, <<"n">> >>)],
      [path |-> tgt_t \o <<n_d>>, node |-> LinkNode(TRUE, ext_z)],
      [path |-> tgt_t \o <<n_d>>, node |-> LinkNode(TRUE, src_s \o <<n_d, n_e>>)],
      [path |-> tgt_t \o <<n_d>>, node |-> FileNode],
      [path |-> ext_z \o <<n_f>>, node |-> LinkNode(TRUE, << <<"x">>, <<"n">> >>)] }

\* the user writes an entry: a new one, or in place of a file or symlink
UserWrite(e) ==
    /\ Dir(e.path) \in DOMAIN fs
    /\ fs[Dir(e.path)].kind = "dir"
    /\ e.path \in DOMAIN fs => fs[e.path].kind # "dir" /\ fs[e.path] # e.node
    /\ Tick
    /\ Remember
    /\ fs' = [q \in DOMAIN fs \cup {e.path} |-> IF q = e.path THEN e.node ELSE fs[q]]
    /\ result' = [NoResult EXCEPT !.op = "user"]
    /\ UNCHANGED <<cfg, lock, header, disk, calls, probe, runs, mem>>

\* the files and symlinks the user may delete between two calls
UserRemovable == { src_s \o <<n_a>>, tgt_t \o <<n_a>> }

\* the user deletes a file or a symlink
UserRemove(p) ==
    /\ p \in DOMAIN fs
    /\ fs[p].kind # "dir"
    /\ Tick
    /\ Remember
    /\ fs' = [q \in DOMAIN fs \ {p} |-> fs[q]]
    /\ result' = [NoResult EXCEPT !.op = "user"]
    /\ UNCHANGED <<cfg, lock, header, disk, calls, probe, runs, mem>>

\* the user edits the configuration file between two calls
EditConfig(c) ==
    /\ c # cfg
    /\ Tick
    /\ Remember
    /\ cfg' = c
    /\ result' = [NoResult EXCEPT !.op = "edit"]
    /\ UNCHANGED <<fs, lock, header, disk, calls, probe, runs, mem>>

-----------------------------------------------------------------------------
(* The operations of the Lock Store, called on the store in memory.        *)

\* the targets and sources the records are made of: /t/a, a target whose
\* name is a byte that is not valid UTF-8, and a target whose name is
\* U+FFFD itself
StoreTargets ==
    { tgt_t \o <<n_a>>, tgt_t \o << <<InvalidByte>> >>,
      tgt_t \o << <<ReplacementChar>> >> }
StoreSources == { src_s \o <<n_a>>, src_r \o <<n_a>> }

\* the outcome of a Lock Store operation: err is the error it returned
StoreOutcome(op, err) ==
    [NoResult EXCEPT !.op = op, !.fatal = err # "nil",
                     !.Errors = IF err = "nil" THEN <<>> ELSE <<Err(err, <<>>)>>]

Call(op, target, source, isFolded) ==
    [op |-> op, target |-> target, source |-> source, isFolded |-> isFolded]

\* lockfile.New: a fresh store replaces the one in memory
Made(r) ==
    /\ header' = r.header
    /\ lock' = r.lock
    /\ calls' = [fresh |-> TRUE, ops |-> <<>>]
    /\ result' = StoreOutcome("new", r.err)

NewStore ==
    /\ Tick
    /\ Remember
    /\ Made(New(clock))
    /\ UNCHANGED <<cfg, fs, disk, probe, runs, mem>>

\* one call of LockFile.AddSymlink
StoreAdd(target, source, isFolded) ==
    /\ header.Exists /\ header.Symlinks = "map"
    /\ Tick
    /\ Remember
    /\ lock' = AddSymlink(lock, target, source, isFolded, clock)
    /\ calls' = [calls EXCEPT !.ops = Append(@, Call("add", target, source,
                                                     isFolded))]
    /\ result' = StoreOutcome("add", "nil")
    /\ UNCHANGED <<cfg, fs, header, disk, probe, runs, mem>>

\* one call of LockFile.RemoveSymlink
StoreRemove(target) ==
    /\ header.Exists /\ header.Symlinks = "map"
    /\ Tick
    /\ Remember
    /\ lock' = RemoveSymlink(lock, target)
    /\ calls' = [calls EXCEPT !.ops = Append(@, Call("remove", target, <<>>,
                                                     FALSE))]
    /\ result' = StoreOutcome("remove", "nil")
    /\ UNCHANGED <<cfg, fs, header, disk, probe, runs, mem>>

Saved(r) ==
    /\ header' = r.header
    /\ disk' = r.file
    /\ result' = StoreOutcome("save", r.err)

\* one call of LockFile.Save; denied: the system refuses the write
SaveStore(denied) ==
    /\ header.Exists
    /\ Tick
    /\ Remember
    /\ Saved(SaveFile(header, lock, disk, denied, clock))
    /\ UNCHANGED <<cfg, fs, lock, calls, probe, runs, mem>>

Loaded(r) ==
    /\ header' = r.header
    /\ lock' = r.lock
    /\ calls' = [fresh |-> FALSE, ops |-> <<>>]
    /\ result' = StoreOutcome("load", r.err)

\* one call of lockfile.Load: what it returns replaces the store in
\* memory; denied: the system refuses the read
LoadStore(denied) ==
    /\ Tick
    /\ Remember
    /\ Loaded(LoadFile(disk, ReadFile(disk, denied), clock))
    /\ UNCHANGED <<cfg, fs, disk, probe, runs, mem>>

\* the lock files the user may write by hand: text that is no JSON, a
\* document of another version, documents without version or records
HandWritten ==
    { GarbageFile,
      JsonFile("0.1", 0, FALSE, <<>>),
      JsonFile("", 0, TRUE, <<>>),
      JsonFile(CurrentVersion, 0, TRUE, <<>>) }

\* the user writes or deletes the lock file
EditLockFile(file) ==
    /\ file # disk
    /\ Tick
    /\ Remember
    /\ disk' = file
    /\ result' = [NoResult EXCEPT !.op = "user"]
    /\ UNCHANGED <<cfg, fs, lock, header, calls, probe, runs, mem>>

\* the faults the system may inject into a call: a removal it refuses, a
\* source directory it refuses to list
DeniedSets == { {}, {tgt_t \o <<n_a>>} }
UnreadableSets == { {}, {src_s \o <<n_d>>} }

Next ==
    \/ \E dryRun \in BOOLEAN, denied \in DeniedSets, unreadable \in UnreadableSets :
           /\ dryRun => denied = {} /\ unreadable = {}
           /\ denied # {} => unreadable = {}
           /\ Link(dryRun, denied, unreadable)
    \/ \E dryRun \in BOOLEAN, denied \in DeniedSets :
           /\ dryRun => denied = {}
           /\ Unlink(dryRun, denied)
    \/ \E e \in UserEntries : UserWrite(e)
    \/ \E p \in UserRemovable : UserRemove(p)
    \/ \E c \in Configs : EditConfig(c)

Spec == Init /\ [][Next]_vars

\* the fold specification: calls of Link alone, on every fold configuration
NextFold == \E dryRun \in BOOLEAN : Link(dryRun, {}, {})

SpecFold == InitFold /\ [][NextFold]_vars

\* the Lock Store specification: the operations of the store and of its
\* file, on a fresh store
InitStore ==
    /\ InitWith({[Packages |-> << PackageB(tgt_u) >>, Ignore |-> <<>>]})
    /\ probe = NoProbe

NextStore ==
    \/ NewStore
    \/ \E target \in StoreTargets, source \in StoreSources, isFolded \in BOOLEAN :
           StoreAdd(target, source, isFolded)
    \/ \E target \in StoreTargets : StoreRemove(target)
    \/ \E denied \in BOOLEAN : SaveStore(denied)
    \/ \E denied \in BOOLEAN : LoadStore(denied)
    \/ \E file \in HandWritten \cup {AbsentFile} : EditLockFile(file)

SpecStore == InitStore /\ [][NextStore]_vars

\* the path matchers as pure functions: patterns with and without a
\* separator, with wildcards and character classes, and relative paths that
\* hold a pattern as whole segments, as parts of segment names, or not at all
MatchPatterns ==
    { <<>>,
      <<"e">>,
      <<"c">>,
      <<"*">>,
      <<"e", "*">>,
      <<"?">>,
      <<".", "g", "i", "t", "*">>,
      <<"[", "e", "]">>,
      <<"d", "[", "^", "x", "]", "e">>,
      <<"d", "/", "e">>,
      <<"e", "/", "c">>,
      <<"*", "/", "e">>,
      <<"d", "/", "*">>,
      <<"d", "/", "e", "/", "c">>,
      <<"[", "d", "]", "/", "e">> }

MatchPaths ==
    { <<>>,
      <<"e">>,
      <<"d">>,
      <<"c">>,
      <<"d", "e">>,
      <<"[", "e", "]">>,
      <<"d", "/", "e">>,
      <<"d", "/", "e", "/", "c">>,
      <<"e", "/", "c">>,
      <<"x", "/", "e">>,
      <<"x", "e", "/", "c", "y">>,
      <<"d", "/", "e", "x">>,
      <<".", "g", "i", "t">>,
      <<"d", "/", ".", "g", "i", "t", "x">>,
      <<"x", "/", "d", "/", "e">>,
      <<"[", "e", "]", "/", "c">>,
      <<"[", "d", "]", "/", "e">>,
      <<"*">>,
      <<"d", "[", "^", "x", "]", "e">> }

\* the names of the entries one level beneath a path
MatchNames == { <<"c">>, <<"x">> }

InitMatch ==
    /\ InitWith({[Packages |-> << PackageB(tgt_u) >>, Ignore |-> <<>>]})
    /\ probe \in { [NoProbe EXCEPT !.pattern = x[1], !.path = x[2], !.name = x[3]] :
                     x \in MatchPatterns \X MatchPaths \X MatchNames }

\* one query: Config.matchesPath and Linker.matchesPath on the pattern and
\* the path, and Config.matchesPath on the entry `name` beneath the path
MatchesPath ==
    /\ ~probe.asked
    /\ probe' = [probe EXCEPT
                    !.asked = TRUE,
                    !.config = ConfigMatchesPath(probe.pattern, probe.path),
                    !.linker = LinkerMatchesPath(probe.pattern, probe.path),
                    !.below = ConfigMatchesPath(probe.pattern,
                                  probe.path \o <<SLASH>> \o probe.name)]
    /\ UNCHANGED <<cfg, fs, lock, result, prev, clock, steps, header, disk, calls, runs, mem>>

NextMatch == MatchesPath

SpecMatch == InitMatch /\ [][NextMatch]_vars

\* the fault specification: packages A and B into separate targets, in
\* both orders, and package A into two targets; directories that cannot be
\* read; and a target directory /t/d that is a symlink to /x/y/z before the
\* first call and that the user may replace by a file
FaultConfigs ==
    { [Packages |-> << Package(src_s, <<tgt_t>>, <<>>, <<>>, FALSE),
                       PackageB(tgt_u) >>, Ignore |-> <<>>],
      [Packages |-> << PackageB(tgt_u),
                       Package(src_s, <<tgt_t>>, <<>>, <<>>, FALSE) >>,
       Ignore |-> <<>>],
      [Packages |-> << Package(src_s, <<tgt_t, tgt_u>>, <<>>, <<>>, FALSE) >>,
       Ignore |-> <<>>] }

AliasedFs ==
    [q \in DOMAIN InitialFs \cup {tgt_t \o <<n_d>>} |->
        IF q = tgt_t \o <<n_d>> THEN LinkNode(TRUE, ext_z) ELSE InitialFs[q]]

FaultSets == { {}, {src_s}, {src_s \o <<n_d>>}, {src_r} }

InitFault == InitOn(FaultConfigs, {InitialFs, AliasedFs}) /\ probe = NoProbe

NextFault ==
    \/ \E dryRun \in BOOLEAN, unreadable \in FaultSets :
           Link(dryRun, {}, unreadable)
    \/ UserWrite([path |-> tgt_t \o <<n_d>>, node |-> FileNode])

SpecFault == InitFault /\ [][NextFault]_vars

\* the undo specification: calls of Link and Unlink from an empty Lock Store
\* and empty targets, package B having a directory /r/d of its own and
\* folding it into the target that package A is linked into file by file
UndoFs ==
    [q \in DOMAIN InitialFs \cup {src_r \o <<n_d>>, src_r \o <<n_d, n_g>>} |->
        IF q = src_r \o <<n_d>> THEN DirNode
        ELSE IF q = src_r \o <<n_d, n_g>> THEN FileNode
        ELSE InitialFs[q]]

UndoConfigs ==
    { [Packages |-> << Package(src_r, <<tgt_t>>, <<>>, <<>>, TRUE),
                       Package(src_s, <<tgt_t>>, <<>>, <<>>, FALSE) >>,
       Ignore |-> <<>>],
      [Packages |-> << Package(src_s, <<tgt_t>>, <<>>, <<>>, FALSE),
                       Package(src_r, <<tgt_u>>, <<>>, <<>>, TRUE) >>,
       Ignore |-> <<>>],
      [Packages |-> << Package(src_s, <<tgt_t, tgt_u>>, <<>>, <<>>, TRUE) >>,
       Ignore |-> <<>>] }

InitUndo == InitOn(UndoConfigs, {UndoFs}) /\ probe = NoProbe

NextUndo ==
    \/ \E dryRun \in BOOLEAN : Link(dryRun, {}, {})
    \/ \E dryRun \in BOOLEAN, denied \in DeniedSets :
           /\ dryRun => denied = {}
           /\ Unlink(dryRun, denied)

SpecUndo == InitUndo /\ [][NextUndo]_vars

-----------------------------------------------------------------------------
(* The commands (cmd/farm/main.go).  An invocation is a process of its own: *)
(* it holds its configuration and its Lock Store in memory and shares the  *)
(* filesystem and the lock file with every other invocation.  Its handler  *)
(* is a sequence of steps: load the configuration, load the lock file, run *)
(* the pass, save the lock file.                                           *)

\* invocation p takes a step: time passes, and nothing of the single-call
\* state changes
Step(p, run) ==
    /\ runs' = [runs EXCEPT ![p] = run]
    /\ clock' = clock + 1
    /\ UNCHANGED <<cfg, lock, result, prev, steps, header, calls, probe, mem>>

\* RunE returns an error
Failed(run, stage) == [run EXCEPT !.pc = "done", !.fatal = stage]

\* invocations start in the order of their numbers
MayStart(p) ==
    /\ runs[p].pc = "idle"
    /\ \A q \in 1..(p - 1) : runs[q].pc # "idle"

\* linkCmd / unlinkCmd: config.Load(configPath); ok: the file is read,
\* parsed and validated, and c is what it holds
CmdLoadConfig(p, cmd, dryRun, c, ok) ==
    /\ MayStart(p)
    /\ cmd \in {"link", "unlink"}
    /\ Step(p, IF ok
               THEN [runs[p] EXCEPT !.pc = "config", !.cmd = cmd,
                                    !.dryRun = dryRun, !.cfg = c]
               ELSE Failed([runs[p] EXCEPT !.cmd = cmd, !.dryRun = dryRun],
                           "config"))
    /\ UNCHANGED <<fs, disk>>

\* the invocation once lockfile.Load has returned r
LockfileLoaded(run, r) ==
    IF r.err # "nil" THEN Failed(run, "lockfile")
    ELSE [run EXCEPT !.pc = "store", !.header = r.header, !.lock = r.lock,
                     !.loadedAt = clock + 1]

\* linkCmd / unlinkCmd: lockfile.Load(lockfilePath); denied: the system
\* refuses the read
CmdLoadLockfile(p, denied) ==
    /\ runs[p].pc = "config"
    /\ Step(p, LockfileLoaded(runs[p],
                              LoadFile(disk, ReadFile(disk, denied), clock)))
    /\ UNCHANGED <<fs, disk>>

\* a handler that saves the lock file after a dry run as well
AfterPassAlwaysSave(run, r) == IF r.fatal THEN "done" ELSE "save"

\* where the handler goes after the pass: it returns on a fatal error, and
\* it saves the lock file unless the run is a dry run
AfterPass(run, r) ==
    IF r.fatal THEN "done" ELSE IF run.dryRun THEN "done" ELSE "save"

\* the invocation once Link or Unlink has returned r
PassDone(run, r) ==
    [run EXCEPT !.pc = AfterPass(run, r),
                !.fatal = IF r.fatal THEN "pass" ELSE "none",
                !.passedAt = clock + 1,
                !.lock = r.st.lock,
                !.Created = r.st.Created,
                !.Errors = r.st.Errors]

\* the linker the handler makes: linker.New(cfg, lock, dryRun)
CmdContext(run) ==
    [cfg |-> run.cfg, dryRun |-> run.dryRun, now |-> clock, denied |-> {},
     unreadable |-> {}]

Passed(p, r) ==
    /\ fs' = r.st.fs
    /\ Step(p, PassDone(runs[p], r))
    /\ UNCHANGED disk

\* linkCmd / unlinkCmd: l.Link() or l.Unlink() on the store the invocation
\* loaded
CmdPass(p) ==
    /\ runs[p].pc = "store"
    /\ Passed(p, IF runs[p].cmd = "link"
                 THEN LinkCall(CmdContext(runs[p]), fs, runs[p].lock)
                 ELSE UnlinkCall(CmdContext(runs[p]), fs, runs[p].lock))

\* the invocation once lock.Save has returned s
SaveDone(run, s) ==
    [run EXCEPT !.pc = "done",
                !.fatal = IF s.err # "nil" THEN "save" ELSE "none",
                !.header = s.header,
                !.saves = @ + 1,
                !.savedAt = clock + 1]

Saving(p, s) ==
    /\ disk' = s.file
    /\ Step(p, SaveDone(runs[p], s))
    /\ UNCHANGED fs

\* linkCmd / unlinkCmd: lock.Save(lockfilePath); denied: the system refuses
\* the write
CmdSave(p, denied) ==
    /\ runs[p].pc = "save"
    /\ Saving(p, SaveFile(runs[p].header, runs[p].lock, disk, denied, clock))

\* the orders a range over the map l may visit its keys in: the iteration
\* order of a map is not specified
RangeOrders(l) ==
    { o \in [1..Cardinality(DOMAIN l) -> DOMAIN l] :
        \A i, j \in DOMAIN o : i # j => o[i] # o[j] }

\* statusCmd from the listing on: the tracked links in the order the range
\* visits them (verbose only), then the dead links as GetDeadSymlinks
\* returns them
StatusListed(run, order, scan) ==
    IF scan.err # "nil"
    THEN Failed([run EXCEPT !.tracked = order], "scan")
    ELSE [run EXCEPT !.pc = "done", !.tracked = order, !.dead = scan.dead]

\* statusCmd once lockfile.Load has returned r
StatusLoaded(run, r, order) ==
    IF r.err # "nil" THEN Failed(run, "lockfile")
    ELSE IF DOMAIN r.lock = {}
    THEN [run EXCEPT !.pc = "done", !.lock = r.lock]
    ELSE StatusListed([run EXCEPT !.lock = r.lock],
                      IF run.verbose THEN order ELSE <<>>,
                      GetDeadSymlinks(r.lock, fs))

\* statusCmd; order: the order in which the range over lock.Symlinks visits
\* the records
CmdStatus(p, verbose, denied, order) ==
    /\ MayStart(p)
    /\ Step(p, StatusLoaded([runs[p] EXCEPT !.cmd = "status",
                                            !.verbose = verbose],
                            LoadFile(disk, ReadFile(disk, denied), clock),
                            order))
    /\ UNCHANGED <<fs, disk>>

\* the command specification: invocations of link, unlink and status that
\* share the filesystem and the lock file, each with the configuration its
\* configPath names; a target directory /t/d that is a symlink to /x/y/z
\* before the first invocation and that the user may replace by a file
CmdConfigs ==
    { [Packages |-> << Package(src_s, <<tgt_t>>, <<>>, <<>>, FALSE) >>,
       Ignore |-> <<>>],
      [Packages |-> << PackageB(tgt_u) >>, Ignore |-> <<>>] }

InitCmd ==
    /\ InitOn({[Packages |-> << PackageB(tgt_u) >>, Ignore |-> <<>>]},
              {InitialFs, AliasedFs})
    /\ probe = NoProbe

NextCmd ==
    \/ \E p \in 1..MaxRuns, cmd \in {"link", "unlink"}, dryRun \in BOOLEAN,
          c \in CmdConfigs, ok \in BOOLEAN :
           CmdLoadConfig(p, cmd, dryRun, c, ok)
    \/ \E p \in 1..MaxRuns, denied \in BOOLEAN : CmdLoadLockfile(p, denied)
    \/ \E p \in 1..MaxRuns : CmdPass(p)
    \/ \E p \in 1..MaxRuns, denied \in BOOLEAN : CmdSave(p, denied)
    \/ \E p \in 1..MaxRuns, verbose \in BOOLEAN, denied \in BOOLEAN :
           \E order \in RangeOrders(LoadFile(disk, ReadFile(disk, denied),
                                             clock).lock) :
               CmdStatus(p, verbose, denied, order)
    \/ UserWrite([path |-> tgt_t \o <<n_d>>, node |-> FileNode])

SpecCmd == InitCmd /\ [][NextCmd]_vars

-----------------------------------------------------------------------------
(* Config.Validate and the slices of the ignore patterns.                  *)

\* a Config is made (yaml.Unmarshal in Load, or a struct literal) with its
\* own ignore list; ok: its packages are valid
NewConfig(i, ignore, ok) ==
    /\ ~mem.configs[i].made
    /\ mem' = [mem EXCEPT !.configs[i] =
                  [NoConfig EXCEPT !.made = TRUE, !.ok = ok, !.Ignore = ignore]]
    /\ UNCHANGED <<cfg, fs, lock, result, prev, clock, steps, header, disk,
                   calls, probe, runs>>

\* Validate from "allPatterns := defaultIgnorePatterns" on; a is what
\* append returns
Compiled(i, a) ==
    [mem EXCEPT !.heap = a.heap,
                !.configs[i].IgnoreGlobs = a.slice,
                !.configs[i].validated = @ + 1,
                !.configs[i].err = FALSE]

\* Config.Validate: an invalid package makes it return an error before the
\* ignore patterns are compiled
Validate(i) ==
    /\ mem.configs[i].made
    /\ mem.configs[i].validated < MaxValidations
    /\ mem' = IF ~mem.configs[i].ok
              THEN [mem EXCEPT !.configs[i].validated = @ + 1,
                               !.configs[i].err = TRUE]
              ELSE Compiled(i, GoAppend(mem.heap, mem.defaults,
                                        mem.configs[i].Ignore))
    /\ UNCHANGED <<cfg, fs, lock, result, prev, clock, steps, header, disk,
                   calls, probe, runs>>

\* the configuration specification: Config values with every ignore list
\* over the pool, validated in any order
NextConfig ==
    \/ \E i \in 1..MaxConfigs, ignore \in SeqsUpTo(IgnorePool, MaxIgnore),
          ok \in BOOLEAN : NewConfig(i, ignore, ok)
    \/ \E i \in 1..MaxConfigs : Validate(i)

InitConfig ==
    /\ InitWith({[Packages |-> << PackageB(tgt_u) >>, Ignore |-> <<>>]})
    /\ probe = NoProbe

SpecConfig == InitConfig /\ [][NextConfig]_vars

-----------------------------------------------------------------------------
(* The vocabulary of the properties.                                       *)

\* p lies strictly beneath directory d
Under(p, d) == Len(p) > Len(d) /\ SubSeq(p, 1, Len(d)) = d

\* the segments of p relative to d, and their string
RelSegs(p, d) == SubSeq(p, Len(d) + 1, Len(p))
RelStr(p, d) == Tail(PathStr(RelSegs(p, d)))

\* the entries of a package's source tree in filesystem f
SourceEntries(f, pkg) == {p \in DOMAIN f : Under(p, pkg.Source)}

\* the path under the pair's target that corresponds to source entry p
TargetOf(pair, p) == pair.target \o RelSegs(p, pair.pkg.Source)

\* the target tree of a pair
TargetPaths(f, pair) == {TargetOf(pair, p) : p \in SourceEntries(f, pair.pkg)}

\* the target trees of distinct package/target pairs do not overlap
NoOverlap(f, c) ==
    \A i, j \in 1..Len(Pairs(c)) :
        i # j => TargetPaths(f, Pairs(c)[i]) \cap TargetPaths(f, Pairs(c)[j]) = {}

\* p is an entry of the source tree of some package
InSourceTree(c, p) == \E i \in 1..Len(c.Packages) : Under(p, c.Packages[i].Source)

\* no path of a target tree resolves to an entry of a source tree other
\* than the source entry it stands for
NoAlias(f, c) ==
    \A i \in 1..Len(Pairs(c)) : \A p \in SourceEntries(f, Pairs(c)[i].pkg) :
        LET r == Resolved(f, TargetOf(Pairs(c)[i], p))
        IN  InSourceTree(c, r) => r = p

\* no entry of a source tree is a symlink to nothing
NoDangling(f, c) ==
    \A i \in 1..Len(c.Packages) : \A p \in SourceEntries(f, c.Packages[i]) :
        f[p].kind = "link" => Stat(f, p).err = "ok"

\* the last operation was a call of Link that returned a result
LinkRan == result.op = "link" /\ ~result.fatal

\* ... a non-dry-run one that returned an empty errors list
CleanLink == LinkRan /\ ~result.dryRun /\ result.Errors = <<>>

\* the system injected no fault into the last call
NoFault == result.denied = {} /\ result.unreadable = {}

-----------------------------------------------------------------------------
(* The properties.                                                         *)

\* C1: after a non-dry-run Link that returns an empty errors list, for
\* every package/target pair and every source file whose package-relative
\* path is not ignored, <target>/<relative path> resolves to that source
\* file, provided the target trees of distinct pairs do not overlap.
C1_EveryFileResolves ==
    (CleanLink /\ NoOverlap(fs, cfg)) =>
        \A i \in 1..Len(Pairs(cfg)) :
            \A p \in SourceEntries(fs, Pairs(cfg)[i].pkg) :
                (/\ fs[p].kind = "file"
                 /\ ~ShouldIgnore(cfg, RelStr(p, Pairs(cfg)[i].pkg.Source)))
                => Resolved(fs, TargetOf(Pairs(cfg)[i], p)) = p

\* the last two operations were non-dry-run calls of Link, the first of
\* which returned an empty errors list; prev is the state between them
LinkedAgain ==
    /\ result.op = "link" /\ ~result.dryRun /\ NoFault
    /\ prev.result.op = "link" /\ ~prev.result.dryRun
    /\ ~prev.result.fatal /\ prev.result.Errors = <<>>

SecondRunIdle == ~result.fatal /\ result.Created = <<>> /\ result.Errors = <<>>

Separate ==
    /\ NoOverlap(prev.fs, cfg)
    /\ NoAlias(prev.fs, cfg)
    /\ NoDangling(prev.fs, cfg)

DeadLink(T) ==
    /\ T \in DOMAIN prev.lock
    /\ Lstat(prev.fs, T).err = "ok"
    /\ prev.fs[Lstat(prev.fs, T).path].kind = "link"
    /\ LinkDestAbs(prev.fs, T) = prev.lock[T].Source
    /\ Lstat(prev.fs, prev.lock[T].Source).err = "ENOENT"

\* the last call was a non-dry-run Link in which the removal of T did not
\* fail
Reconciled(T) == LinkRan /\ ~result.dryRun /\ T \notin result.denied

\* nothing is at T and the Lock Store has no record for T
Gone(T) == Lstat(fs, T).err = "ENOENT" /\ T \notin DOMAIN lock

DryRan == result.op \in {"link", "unlink"} /\ result.dryRun

\* the lists and the Lock Store are updated as if every skipped step had
\* been performed: no step is reported as failed; Link lists every dead
\* link in removed and Unlink every recorded target; a target listed in
\* created has a record written by this call; a target listed in removed
\* has lost the record it had (it has none, or one written by this call)
AsIfPerformed ==
    /\ \A k \in 1..Len(result.Errors) :
           result.Errors[k].kind \notin {"mkdir", "remove", "symlink"}
    /\ result.op = "link" /\ ~result.fatal =>
           result.Removed = GetDeadSymlinks(prev.lock, prev.fs).dead
    /\ result.op = "unlink" =>
           /\ Range(result.Removed) = DOMAIN prev.lock
           /\ DOMAIN lock = {}
    /\ \A T \in Range(result.Created) :
           T \in DOMAIN lock /\ lock[T].Created = clock - 1
    /\ \A T \in Range(result.Removed) :
           /\ T \in DOMAIN prev.lock
           /\ T \in DOMAIN lock => lock[T].Created = clock - 1

\* C4: in dry-run mode Link and Unlink leave the filesystem exactly as it
\* was, while the created and removed lists and the in-memory Lock Store
\* are updated as if the steps had been performed.
C4_DryRunFrame == DryRan => (fs = prev.fs /\ AsIfPerformed)

\* a dry-run Link that reports a removal and a creation on a filesystem it
\* left alone
C4_Witness ==
    /\ DryRan /\ result.op = "link"
    /\ result.Created # <<>> /\ result.Removed # <<>>
    /\ fs = prev.fs
    /\ lock # prev.lock

\* the directories of a package's source tree
SourceDirs(f, pkg) == {p \in SourceEntries(f, pkg) : f[p].kind = "dir"}

\* the fold decision of the walk for source directory p
Decision(pkg, p) == shouldFold(p[Len(p)], Dir(p), pkg)

\* some pattern of the list matches the path, by the linker's matcher
AnyMatches(patterns, rel) ==
    \E i \in 1..Len(patterns) : LinkerMatches(patterns[i], rel)

\* some no_fold entry names a path beneath the path
NamesBeneath(patterns, rel) ==
    \E i \in 1..Len(patterns) : HasPrefix(patterns[i], rel \o <<SLASH>>)

\* C5 as stated: shouldFold is false whenever a no_fold pattern matches the
\* directory's package-relative path; otherwise true whenever a fold
\* pattern matches it; otherwise the package's default_fold flag.
C5_StrictPrecedence ==
    \A i \in 1..Len(cfg.Packages) : \A p \in SourceDirs(fs, cfg.Packages[i]) :
        LET pkg == cfg.Packages[i]
            rel == RelStr(p, pkg.Source)
        IN  Decision(pkg, p) =
                IF AnyMatches(pkg.NoFold, rel) THEN FALSE
                ELSE IF AnyMatches(pkg.Fold, rel) THEN TRUE
                ELSE pkg.DefaultFold

\* C5 amended: shouldFold is false whenever a no_fold pattern matches the
\* directory's package-relative path or a no_fold entry names a path
\* beneath it (the entry begins with that path followed by "/"); otherwise
\* true whenever a fold pattern matches it; otherwise the package's
\* default_fold flag.
C5_PrecedenceWithDescendants ==
    \A i \in 1..Len(cfg.Packages) : \A p \in SourceDirs(fs, cfg.Packages[i]) :
        LET pkg == cfg.Packages[i]
            rel == RelStr(p, pkg.Source)
        IN  Decision(pkg, p) =
                IF AnyMatches(pkg.NoFold, rel) \/ NamesBeneath(pkg.NoFold, rel)
                THEN FALSE
                ELSE IF AnyMatches(pkg.Fold, rel) THEN TRUE
                ELSE pkg.DefaultFold

\* a Link that did not fold a directory matched by a fold pattern and by no
\* no_fold pattern, because a no_fold entry names a path beneath it
C5_Witness ==
    /\ CleanLink
    /\ \E i \in 1..Len(cfg.Packages) : \E p \in SourceDirs(fs, cfg.Packages[i]) :
           LET pkg == cfg.Packages[i]
               rel == RelStr(p, pkg.Source)
               T == TargetOf([pkg |-> pkg, target |-> pkg.Targets[1]], p)
           IN  /\ AnyMatches(pkg.Fold, rel)
               /\ ~AnyMatches(pkg.NoFold, rel)
               /\ NamesBeneath(pkg.NoFold, rel)
               /\ T \in DOMAIN fs /\ fs[T].kind = "dir"

\* the pattern has no wildcard
Literal(pattern) == \A k \in 1..Len(pattern) : pattern[k] \notin {"*", "?"}

\* nothing folded stands for source directory p under the pair's target:
\* no symlink is there, and no record and no created entry names the path
NotFolded(pair, p) ==
    /\ TargetOf(pair, p) \notin DOMAIN lock
    /\ TargetOf(pair, p) \notin Range(result.Created)
    /\ TargetOf(pair, p) \in DOMAIN fs => fs[TargetOf(pair, p)].kind = "dir"

\* source file p has a symlink of its own under the pair's target
LinkedByFile(pair, p) ==
    /\ TargetOf(pair, p) \in DOMAIN fs
    /\ fs[TargetOf(pair, p)].kind = "link"
    /\ Resolved(fs, TargetOf(pair, p)) = p
    /\ TargetOf(pair, p) \in DOMAIN lock
    /\ ~lock[TargetOf(pair, p)].IsFolded

\* C6: if a no_fold entry names a literal path nested below a directory D,
\* then D and every directory from D down to the named directory are never
\* folded by Link, whatever the fold patterns and default_fold; the named
\* directory and everything beneath it is linked file by file (the files
\* that no ignore pattern excludes, once a non-dry-run Link has returned an
\* empty errors list).
C6_NestedNoFoldProtects ==
    \A i \in 1..Len(Pairs(cfg)) : \A k \in 1..Len(Pairs(cfg)[i].pkg.NoFold) :
        LET pair == Pairs(cfg)[i]
            named == pair.pkg.NoFold[k]
        IN  Literal(named) =>
            /\ \A p \in SourceDirs(fs, pair.pkg) :
                   LET rel == RelStr(p, pair.pkg.Source)
                   IN  (\/ HasPrefix(named, rel \o <<SLASH>>)
                        \/ rel = named
                        \/ HasPrefix(rel, named \o <<SLASH>>))
                       => NotFolded(pair, p)
            /\ CleanLink =>
                   \A p \in SourceEntries(fs, pair.pkg) :
                       LET rel == RelStr(p, pair.pkg.Source)
                       IN  (/\ fs[p].kind = "file"
                            /\ HasPrefix(rel, named \o <<SLASH>>)
                            /\ ~ShouldIgnore(cfg, rel))
                           => LinkedByFile(pair, p)

\* a Link, folding by default, that kept the directories above a path
\* named by no_fold as real directories and linked the file beneath it
C6_Witness ==
    /\ CleanLink
    /\ \E i \in 1..Len(Pairs(cfg)) : \E k \in 1..Len(Pairs(cfg)[i].pkg.NoFold) :
           LET pair == Pairs(cfg)[i]
               named == pair.pkg.NoFold[k]
           IN  /\ pair.pkg.DefaultFold
               /\ Literal(named)
               /\ \E p \in SourceDirs(fs, pair.pkg) :
                      /\ HasPrefix(named, RelStr(p, pair.pkg.Source) \o <<SLASH>>)
                      /\ TargetOf(pair, p) \in DOMAIN fs
                      /\ fs[TargetOf(pair, p)].kind = "dir"
               /\ \E p \in SourceEntries(fs, pair.pkg) :
                      /\ HasPrefix(RelStr(p, pair.pkg.Source), named \o <<SLASH>>)
                      /\ fs[p].kind = "file"
                      /\ LinkedByFile(pair, p)

\* C7: for every no_fold pattern and every source directory X whose
\* package-relative path matches it, no ancestor directory of X is folded
\* by Link.
C7_NoFoldAncestorsKept ==
    \A i \in 1..Len(Pairs(cfg)) : \A k \in 1..Len(Pairs(cfg)[i].pkg.NoFold) :
        LET pair == Pairs(cfg)[i]
        IN  \A X \in SourceDirs(fs, pair.pkg) :
                LinkerMatches(pair.pkg.NoFold[k], RelStr(X, pair.pkg.Source)) =>
                    \A A \in SourceDirs(fs, pair.pkg) :
                        Under(X, A) => NotFolded(pair, A)

\* C8: starting from a target directory that holds no entry for it, after
\* any Link a source entry whose package-relative path matches an ignore
\* pattern is listed neither in created nor in removed, and nothing exists
\* at the corresponding path under any target of its package.
C8_IgnoredNowhere ==
    LinkRan =>
        \A i \in 1..Len(Pairs(cfg)) :
            \A p \in SourceEntries(fs, Pairs(cfg)[i].pkg) :
                ShouldIgnore(cfg, RelStr(p, Pairs(cfg)[i].pkg.Source)) =>
                    /\ TargetOf(Pairs(cfg)[i], p) \notin Range(result.Created)
                    /\ TargetOf(Pairs(cfg)[i], p) \notin Range(result.Removed)
                    /\ Lstat(fs, TargetOf(Pairs(cfg)[i], p)).err # "ok"

\* filesystem f without the entry at T and what is beneath it
Without(f, T) == [q \in {q \in DOMAIN f : q # T /\ ~Under(q, T)} |-> f[q]]

\* filesystem f with every target directory of the configuration emptied
Emptied(f, c) ==
    [q \in {q \in DOMAIN f : \A i \in 1..Len(Pairs(c)) : ~Under(q, Pairs(c)[i].target)}
        |-> f[q]]

\* the context of a call of Link that meets no fault
Calm(dryRun) ==
    [cfg |-> cfg, dryRun |-> dryRun, now |-> clock - 1, denied |-> {},
     unreadable |-> {}]

\* the target paths the walk of the last call wants to link: those a Link
\* links when the target directories are empty
Wanted == Range(LinkCall(Calm(TRUE), Emptied(prev.fs, cfg), << >>).st.Created)

\* a regular file or directory occupied T when the last call started
Occupied(T) ==
    /\ Lstat(prev.fs, T).err = "ok"
    /\ prev.fs[Lstat(prev.fs, T).path].kind # "link"

\* C9: Link never removes, replaces or modifies a filesystem entry that is
\* not a symlink: when a regular file or directory occupies a target path
\* the walk wants to link, that entry is left unchanged, the Lock Store
\* record for that path is not written or changed, and an error naming the
\* path is added to errors.
C9_NonSymlinksKept ==
    LinkRan =>
        /\ \A p \in DOMAIN prev.fs :
               prev.fs[p].kind # "link" => p \in DOMAIN fs /\ fs[p] = prev.fs[p]
        /\ \A T \in Wanted :
               Occupied(T) =>
                   /\ (T \in DOMAIN lock) = (T \in DOMAIN prev.lock)
                   /\ T \in DOMAIN lock => lock[T] = prev.lock[T]
                   /\ \E k \in 1..Len(result.Errors) : result.Errors[k].path = T

\* C10: a conflict on one entry affects only that entry: the links created
\* for the other entries are the same as if the conflicting entry were
\* absent.
C10_ConflictLocal ==
    (LinkRan /\ ~result.dryRun /\ NoFault) =>
        \A T \in Wanted :
            Occupied(T) =>
                Range(result.Created) \ {T} =
                    Range(LinkCall(Calm(FALSE), Without(prev.fs, T),
                                   prev.lock).st.Created) \ {T}

\* the context the last call of Link or Unlink was given
LastContext ==
    [cfg |-> cfg, dryRun |-> result.dryRun, now |-> clock - 1,
     denied |-> result.denied, unreadable |-> result.unreadable]

\* the last operation was a non-dry-run call of Link or Unlink
RealRun == result.op \in {"link", "unlink"} /\ ~result.dryRun /\ ~result.fatal

\* the state the removal loop of the last call left: for Link the state at
\* the end of its reconcile phase, for Unlink the state it returned
Reconcile ==
    IF result.op = "link"
    THEN RemoveDead(LastContext, NewResult(prev.fs, prev.lock),
                    GetDeadSymlinks(prev.lock, prev.fs).dead, 1)
    ELSE [fs |-> fs, lock |-> lock, Created |-> <<>>,
          Removed |-> result.Removed, Errors |-> result.Errors,
          Log |-> result.Log]

\* the removal loop of the last call tried to remove T
Attempted(T) ==
    IF result.op = "link"
    THEN T \in Range(GetDeadSymlinks(prev.lock, prev.fs).dead)
    ELSE T \in DOMAIN prev.lock

\* ... and the removal failed for a reason other than "not found"
RemovalFailed(T) == Attempted(T) /\ Lstat(Reconcile.fs, T).err # "ENOENT"

\* C11: in the reconcile phase of Link and in Unlink (non-dry-run) a record
\* is removed only if the removal of its target succeeded or the target was
\* already missing; if the removal fails for another reason, an error is
\* appended to errors, the target is not listed in removed and the record
\* stays in the Lock Store unchanged.
C11_RecordKeptOnFailure ==
    RealRun =>
        \A T \in DOMAIN prev.lock :
            /\ T \notin DOMAIN Reconcile.lock =>
                   Lstat(Reconcile.fs, T).err = "ENOENT"
            /\ RemovalFailed(T) =>
                   /\ \E k \in 1..Len(Reconcile.Errors) :
                          Reconcile.Errors[k] = Err("remove", T)
                   /\ T \notin Range(Reconcile.Removed)
                   /\ T \in DOMAIN Reconcile.lock
                   /\ Reconcile.lock[T] = prev.lock[T]

\* a Link whose reconcile phase could not remove a dead link
C11_Witness ==
    /\ RealRun /\ result.op = "link"
    /\ \E T \in DOMAIN prev.lock :
           /\ RemovalFailed(T)
           /\ T \in DOMAIN lock /\ lock[T] = prev.lock[T]
           /\ Err("remove", T) \in Range(result.Errors)

\* target T holds a symlink whose destination, as the code computes it, is S
HoldsLinkTo(f, T, S) ==
    /\ Lstat(f, T).err = "ok"
    /\ f[Lstat(f, T).path].kind = "link"
    /\ LinkDestAbs(f, T) = S

\* the record AddSymlink writes
Record(target, source, isFolded, now) ==
    [Source |-> source, Target |-> target, Created |-> now,
     IsFolded |-> isFolded]

\* createSymlink(S, T, folded), called on filesystem f and Lock Store l,
\* adopts the symlink at T: nothing is reported or changed but the record
Adopts(dryRun, f, l, S, T, folded) ==
    LET r == createSymlink([LastContext EXCEPT !.dryRun = dryRun,
                                               !.now = clock],
                           NewResult(f, l), S, T, folded)
    IN  /\ r.err = Nil
        /\ r.st.fs = f
        /\ r.st.Created = <<>> /\ r.st.Errors = <<>>
        /\ DOMAIN r.st.lock = DOMAIN l \cup {T}
        /\ \A q \in DOMAIN r.st.lock :
               r.st.lock[q] = IF q = T THEN Record(T, S, folded, clock) ELSE l[q]

\* the last call was a Link that adopted the symlink T held for source S:
\* the entry is as it was, the record is written by this call with S and
\* the folded flag of the walk, and T is not listed in created
Adopted(T, S) ==
    /\ HoldsLinkTo(fs, T, S)
    /\ fs[Lstat(fs, T).path] = prev.fs[Lstat(prev.fs, T).path]
    /\ T \in DOMAIN lock
    /\ lock[T] = Record(T, S, prev.fs[S].kind = "dir", clock - 1)
    /\ T \notin Range(result.Created)

\* C12: when the target path already holds a symlink whose destination
\* equals the intended source, Link leaves the entry untouched, writes or
\* rewrites the record for that target with the intended source and folded
\* flag, and does not add the target to created, also when the symlink was
\* made by hand and was not tracked before.  Stated of createSymlink in
\* every reachable state, and of every Link that ends without an error and
\* whose reconcile phase leaves the target alone.
C12_CorrectLinkAdopted ==
    /\ \A i \in 1..Len(Pairs(cfg)) :
           \A S \in SourceEntries(fs, Pairs(cfg)[i].pkg) :
               HoldsLinkTo(fs, TargetOf(Pairs(cfg)[i], S), S) =>
                   \A dryRun, folded \in BOOLEAN :
                       Adopts(dryRun, fs, lock, S, TargetOf(Pairs(cfg)[i], S),
                              folded)
    /\ (LinkRan /\ result.Errors = <<>> /\ NoOverlap(prev.fs, cfg)) =>
           \A i \in 1..Len(Pairs(cfg)) :
               \A S \in SourceEntries(prev.fs, Pairs(cfg)[i].pkg) :
                   (/\ TargetOf(Pairs(cfg)[i], S) \in Wanted
                    /\ HoldsLinkTo(prev.fs, TargetOf(Pairs(cfg)[i], S), S)
                    /\ TargetOf(Pairs(cfg)[i], S) \notin Range(result.Removed))
                   => Adopted(TargetOf(Pairs(cfg)[i], S), S)

\* a Link that adopted a symlink made by hand, not tracked before
C12_Witness ==
    /\ LinkRan /\ ~result.dryRun /\ result.Errors = <<>>
    /\ \E i \in 1..Len(Pairs(cfg)) :
           \E S \in SourceEntries(prev.fs, Pairs(cfg)[i].pkg) :
               /\ TargetOf(Pairs(cfg)[i], S) \notin DOMAIN prev.lock
               /\ HoldsLinkTo(prev.fs, TargetOf(Pairs(cfg)[i], S), S)
               /\ prev.fs[TargetOf(Pairs(cfg)[i], S)].abs
               /\ Adopted(TargetOf(Pairs(cfg)[i], S), S)

\* target T holds a symlink that points somewhere other than S
HoldsLinkElsewhere(f, T, S) ==
    /\ Lstat(f, T).err = "ok"
    /\ f[Lstat(f, T).path].kind = "link"
    /\ LinkDestAbs(f, T) # S

\* the entry the symlink at T leads to, as the kernel resolves its
\* destination from the directory that holds it (<<"!">>: nothing)
PointsAt(f, T) ==
    LET at == Lstat(f, T).path
        to == Walk(f, IF f[at].abs THEN <<>> ELSE Dir(at), f[at].dest, FALSE,
                   MaxSymlinkHops)
    IN  IF to.err = "ok" THEN to.path ELSE << <<"!">> >>

\* T is a symlink resolving to S, recorded for S and listed in created
Replaced(T, S) ==
    /\ Lstat(fs, T).err = "ok"
    /\ fs[Lstat(fs, T).path].kind = "link"
    /\ PointsAt(fs, T) = S
    /\ T \in DOMAIN lock /\ lock[T].Source = S
    /\ T \in Range(result.Created)

\* C13: when the target path holds a symlink that points somewhere other
\* than the intended source, a non-dry-run Link replaces it: afterwards the
\* target is a symlink resolving to the intended source, the record for the
\* target names the intended source, and the target is listed in created.
\* Stated of every target the walk links, for a Link that returns no error
\* on target trees that do not overlap.
C13_WrongLinkReplaced ==
    (CleanLink /\ NoOverlap(prev.fs, cfg)) =>
        \A i \in 1..Len(Pairs(cfg)) :
            \A S \in SourceEntries(prev.fs, Pairs(cfg)[i].pkg) :
                (/\ TargetOf(Pairs(cfg)[i], S) \in Wanted
                 /\ HoldsLinkElsewhere(prev.fs, TargetOf(Pairs(cfg)[i], S), S))
                => Replaced(TargetOf(Pairs(cfg)[i], S), S)

\* the last operation was a non-dry-run call of Unlink
Unlinked == result.op = "unlink" /\ ~result.dryRun

\* the paths of list are in ascending order, each once
Ascending(list) ==
    \A i, j \in 1..Len(list) : i < j => PathLess(list[i], list[j])

\* C14: after a non-dry-run Unlink in which no removal fails, the Lock
\* Store is empty, no previously recorded target exists on disk, and
\* removed lists exactly the previously recorded targets, each once, in
\* ascending target order; a recorded target that was already missing on
\* disk is removed from the Lock Store and listed in removed without an
\* error.
C14_UnlinkRemovesAll ==
    Unlinked =>
        /\ result.Errors = <<>> =>
               /\ DOMAIN lock = {}
               /\ \A T \in DOMAIN prev.lock : Lstat(fs, T).err # "ok"
               /\ Range(result.Removed) = DOMAIN prev.lock
               /\ Len(result.Removed) = Cardinality(DOMAIN prev.lock)
               /\ Ascending(result.Removed)
        /\ \A T \in DOMAIN prev.lock :
               Lstat(prev.fs, T).err = "ENOENT" =>
                   /\ T \notin DOMAIN lock
                   /\ T \in Range(result.Removed)
                   /\ \A k \in 1..Len(result.Errors) : result.Errors[k].path # T

\* an Unlink of several records, one of them already missing on disk
C14_Witness ==
    /\ Unlinked /\ result.Errors = <<>>
    /\ Len(result.Removed) > 2
    /\ DOMAIN lock = {}
    /\ \E T \in DOMAIN prev.lock : Lstat(prev.fs, T).err = "ENOENT"
    /\ \E T \in DOMAIN prev.lock : Lstat(prev.fs, T).err = "ok"

\* nothing exists at T
Missing(f, T) == Lstat(f, T).err = "ENOENT"

\* T is a symlink
IsLink(f, T) == Lstat(f, T).err = "ok" /\ f[Lstat(f, T).path].kind = "link"

\* T is occupied by an entry that is not a symlink
IsOther(f, T) == Lstat(f, T).err = "ok" /\ f[Lstat(f, T).path].kind # "link"

\* T is a symlink whose destination does not exist or differs from the
\* recorded source
Strayed(l, f, T) ==
    /\ IsLink(f, T)
    /\ \/ Stat(f, LinkDestAbs(f, T)).err = "ENOENT"
       \/ LinkDestAbs(f, T) # l[T].Source

\* C15: GetDeadSymlinks returns, in ascending target order and without
\* duplicates, exactly the recorded targets for which either nothing exists
\* at the target path, or the target is a symlink whose destination does
\* not exist or differs from the recorded source; a recorded target
\* occupied by a non-symlink is never returned.
C15_DeadLinksExact ==
    GetDeadSymlinks(lock, fs).err = "nil" =>
        /\ Ascending(GetDeadSymlinks(lock, fs).dead)
        /\ Range(GetDeadSymlinks(lock, fs).dead) =
               {T \in DOMAIN lock : Missing(fs, T) \/ Strayed(lock, fs, T)}
        /\ \A T \in DOMAIN lock :
               IsOther(fs, T) => T \notin Range(GetDeadSymlinks(lock, fs).dead)

\* a Lock Store with a dead link, a live link and a record whose target
\* is a regular file
C15_Witness ==
    /\ GetDeadSymlinks(lock, fs).err = "nil"
    /\ GetDeadSymlinks(lock, fs).dead # <<>>
    /\ \E T \in DOMAIN lock : IsOther(fs, T)
    /\ \E T \in DOMAIN lock :
           IsLink(fs, T) /\ T \notin Range(GetDeadSymlinks(lock, fs).dead)

\* C16: a tracked target that still exists on disk but is no longer a
\* symlink is a dead link: GetDeadSymlinks reports it, so the next Link
\* drops it from the Lock Store.
C16_NonSymlinkIsDead ==
    /\ GetDeadSymlinks(lock, fs).err = "nil" =>
           \A T \in DOMAIN lock :
               IsOther(fs, T) => T \in Range(GetDeadSymlinks(lock, fs).dead)
    /\ (LinkRan /\ ~result.dryRun /\ NoFault) =>
           \A T \in DOMAIN prev.lock :
               IsOther(prev.fs, T) => T \notin DOMAIN lock

\* the current version and a usable record map
Usable(h) == h.Exists /\ h.Version = CurrentVersion /\ h.Symlinks = "map"

\* C17: Load returns a Lock Store only when the file is absent (then an
\* empty store with the current version) or when it parses and its version
\* equals the current version; a malformed file or a version mismatch
\* yields an error and no store; every store returned by Load or New has
\* Version equal to the current version and a usable (non-nil) record map.
C17_LoadOnlyCurrentVersion ==
    /\ result.op = "load" =>
           /\ result.fatal = ~header.Exists
           /\ header.Exists =>
                  \/ prev.disk.kind = "absent" /\ DOMAIN lock = {}
                  \/ prev.disk.kind = "json" /\ prev.disk.version = CurrentVersion
           /\ (\/ prev.disk.kind = "garbage"
               \/ prev.disk.kind = "json" /\ prev.disk.version # CurrentVersion)
              => result.fatal /\ ~header.Exists
    /\ result.op = "new" => header.Exists /\ DOMAIN lock = {}
    /\ (result.op \in {"load", "new"} /\ header.Exists) => Usable(header)

\* a Load that returned a store from a file whose "symlinks" is null
C17_Witness ==
    /\ result.op = "load" /\ ~result.fatal
    /\ prev.disk.kind = "json" /\ prev.disk.isNull
    /\ Usable(header)

\* the last two calls made on the store were AddSymlink calls with
\* identical arguments
AddedTwice ==
    /\ result.op = "add"
    /\ Len(calls.ops) >= 2
    /\ calls.ops[Len(calls.ops)] = calls.ops[Len(calls.ops) - 1]

\* C18: AddSymlink is idempotent: calling it a second time with identical
\* (target, source, folded) arguments leaves the Lock Store exactly as it
\* was after the first call, the stored record (source, target, creation
\* timestamp, folded flag) included.
C18_AddSymlinkIdempotent == AddedTwice => lock = prev.lock

\* the calls made on the store that name target T
CallsOn(T) == {k \in 1..Len(calls.ops) : calls.ops[k].target = T}

\* the last of them
LastOn(T) == calls.ops[CHOOSE k \in CallsOn(T) : \A j \in CallsOn(T) : j <= k]

\* the last operation was a call of AddSymlink or RemoveSymlink
StoreCalled == result.op \in {"add", "remove"}

\* C19: after any sequence of AddSymlink and RemoveSymlink calls on a fresh
\* store, the store holds a record for exactly those targets whose last
\* operation was AddSymlink, each record's Target field equals its key and
\* its source and folded flag are those of the last AddSymlink for that
\* target; RemoveSymlink of an untracked target never fails and changes
\* nothing, and neither operation changes the record of any other target.
C19_StoreFollowsCalls ==
    /\ calls.fresh =>
           /\ DOMAIN lock =
                  {T \in StoreTargets : CallsOn(T) # {} /\ LastOn(T).op = "add"}
           /\ \A T \in DOMAIN lock :
                  /\ lock[T].Target = T
                  /\ lock[T].Source = LastOn(T).source
                  /\ lock[T].IsFolded = LastOn(T).isFolded
    /\ StoreCalled =>
           /\ ~result.fatal
           /\ \A T \in (DOMAIN lock \cup DOMAIN prev.lock)
                         \ {calls.ops[Len(calls.ops)].target} :
                  /\ T \in DOMAIN lock /\ T \in DOMAIN prev.lock
                  /\ lock[T] = prev.lock[T]
           /\ (/\ result.op = "remove"
               /\ calls.ops[Len(calls.ops)].target \notin DOMAIN prev.lock)
              => lock = prev.lock

\* three calls on a fresh store: a record replaced by a second AddSymlink
\* while another target keeps its record
C19_Witness ==
    /\ calls.fresh /\ Len(calls.ops) = 3
    /\ result.op = "add"
    /\ calls.ops[3].target \in DOMAIN prev.lock
    /\ lock[calls.ops[3].target].Source # prev.lock[calls.ops[3].target].Source
    /\ Cardinality(DOMAIN lock) = 2

\* the last two operations were a Save and a Load of the file it wrote,
\* both without error; prev is the state between them
SavedAndLoaded ==
    /\ result.op = "load" /\ ~result.fatal
    /\ prev.result.op = "save" /\ ~prev.result.fatal

\* C20: Save followed by Load of the same path returns a store with the
\* same version and the same set of records (same keys, and for each key
\* the same source, target and folded flag) as the store that was saved,
\* for every store content.
C20_SaveLoadRoundTrip ==
    SavedAndLoaded =>
        /\ header.Version = prev.header.Version
        /\ DOMAIN lock = DOMAIN prev.lock
        /\ \A T \in DOMAIN lock \cap DOMAIN prev.lock :
               /\ lock[T].Source = prev.lock[T].Source
               /\ lock[T].Target = prev.lock[T].Target
               /\ lock[T].IsFolded = prev.lock[T].IsFolded

-----------------------------------------------------------------------------
(* The Path Matcher as a function.                                         *)

HasSeparator(s) == \E i \in 1..Len(s) : s[i] = SLASH

\* the pattern is made of literals, '*' and '?' only
PlainGlob(pattern) == \A i \in 1..Len(pattern) : pattern[i] \notin {"[", "\\"}

\* some whole segment of the path glob-matches the pattern
SomeSegmentMatches(pattern, path) ==
    \E i \in 1..Len(Split(path)) : Match(pattern, Split(path)[i])

\* the answer the segment rule gives for the query
SegmentRule ==
    /\ probe.config = SomeSegmentMatches(probe.pattern, probe.path)
    /\ probe.pattern = <<>> => (probe.config = (probe.path = <<>>))

\* C21 as stated: for a pattern without a separator, Config.matchesPath is
\* true exactly when some whole segment of the path glob-matches the
\* pattern, and the empty pattern matches the empty path alone.
C21_SegmentMatchOnly ==
    probe.asked /\ ~HasSeparator(probe.pattern) => SegmentRule

\* C21, for patterns of literals, '*' and '?': for such a pattern without a
\* separator, Config.matchesPath is true exactly when some whole segment of
\* the path glob-matches the pattern, at any depth and never on a part of a
\* segment's name, and the empty pattern matches the empty path alone.
C21_PlainSegmentMatchOnly ==
    probe.asked /\ ~HasSeparator(probe.pattern) /\ PlainGlob(probe.pattern)
        => SegmentRule

\* a separator-free pattern matched a segment beneath the first one
C21_Witness ==
    /\ probe.asked /\ probe.config
    /\ ~HasSeparator(probe.pattern) /\ PlainGlob(probe.pattern)
    /\ HasSeparator(probe.path)
    /\ ~Match(probe.pattern, Split(probe.path)[1])

\* the pattern's segments glob-match the path's whole segments from offset
\* startIdx on, consecutively
WholeAt(pattern, path, startIdx) ==
    /\ startIdx + Len(Split(pattern)) <= Len(Split(path))
    /\ \A i \in 1..Len(Split(pattern)) :
           Match(Split(pattern)[i], Split(path)[startIdx + i])

\* the same, a pattern segment also being accepted inside the name of the
\* path segment
InsideAt(pattern, path, startIdx) ==
    /\ startIdx + Len(Split(pattern)) <= Len(Split(path))
    /\ \A i \in 1..Len(Split(pattern)) :
           \/ Match(Split(pattern)[i], Split(path)[startIdx + i])
           \/ Contains(Split(path)[startIdx + i], Split(pattern)[i])

Offsets(path) == 0..(Len(Split(path)) - 1)

EqualOrBeneath(pattern, path) ==
    pattern = path \/ HasPrefix(path, pattern \o <<SLASH>>)

Shorter(pattern, path) == Len(Split(path)) < Len(Split(pattern))

\* C22 as stated: for a pattern with a separator, Config.matchesPath is true
\* exactly when the path equals the pattern, or begins with pattern + "/",
\* or the pattern's segments glob-match whole path segments at some offset;
\* it is false for a path with fewer segments than the pattern, and false
\* when a pattern segment only occurs inside a path segment's name.
C22_WholeSegmentsOnly ==
    probe.asked /\ HasSeparator(probe.pattern)
        => /\ probe.config =
                  (\/ EqualOrBeneath(probe.pattern, probe.path)
                   \/ \E k \in Offsets(probe.path) :
                          WholeAt(probe.pattern, probe.path, k))
           /\ Shorter(probe.pattern, probe.path) => ~probe.config

\* C22, with the substring rule of the code: for a pattern with a
\* separator, Config.matchesPath is true exactly when the path equals the
\* pattern, or begins with pattern + "/", or at some offset every pattern
\* segment glob-matches the corresponding path segment or occurs inside its
\* name; it is false for a path with fewer segments than the pattern.
C22_SegmentsOrInside ==
    probe.asked /\ HasSeparator(probe.pattern)
        => /\ probe.config =
                  (\/ EqualOrBeneath(probe.pattern, probe.path)
                   \/ \E k \in Offsets(probe.path) :
                          InsideAt(probe.pattern, probe.path, k))
           /\ Shorter(probe.pattern, probe.path) => ~probe.config

\* a pattern with a separator matched a path that holds its segments only
\* inside the names of the path's segments
C22_Witness ==
    /\ probe.asked /\ probe.config
    /\ HasSeparator(probe.pattern)
    /\ ~EqualOrBeneath(probe.pattern, probe.path)
    /\ \A k \in Offsets(probe.path) : ~WholeAt(probe.pattern, probe.path, k)

\* C23: matching is closed under descent and reflexive: a pattern that
\* matches a relative path matches every entry beneath that path, and every
\* pattern matches the path equal to it.
C23_ClosedUnderDescent ==
    probe.asked
        => /\ probe.config => probe.below
           /\ probe.pattern = probe.path => probe.config

\* C28: the pattern test of the fold decision (Linker.matchesPath) answers
\* as the Path Matcher of the ignore patterns (Config.matchesPath) does, for
\* every pattern and every package-relative path; so a separator-free name
\* matches a directory of that name at any depth.
C28_MatchersAgree == probe.asked => probe.linker = probe.config

-----------------------------------------------------------------------------
(* Failures of the walk and of the dead-link scan.                         *)

\* the scan of the Lock Store the last call started from meets a stat
\* failure other than not-found
StatFails ==
    \E T \in DOMAIN prev.lock : Lstat(prev.fs, T).err \notin {"ok", "ENOENT"}

\* a directory of the pair's source tree could not be read in the last call
Blocked(pair) ==
    \E d \in result.unreadable : d = pair.pkg.Source \/ Under(d, pair.pkg.Source)

\* what the last call would have left had every directory been readable
FaultFree ==
    LinkCall([LastContext EXCEPT !.unreadable = {}], prev.fs, prev.lock).st

\* the entries of f beneath t, the records of l beneath t, and the paths of
\* list beneath t in their order
TreeAt(f, t) == [q \in {p \in DOMAIN f : Under(p, t)} |-> f[q]]
RecordsAt(l, t) == [q \in {p \in DOMAIN l : Under(p, t)} |-> l[q]]
ListAt(list, t) == SelectSeq(list, LAMBDA q : Under(q, t))

ReadErrors == {i \in 1..Len(result.Errors) : result.Errors[i].kind = "readdir"}

\* C24: a failure to read a source directory of one package/target pair
\* adds one error and stops that pair alone: Link returns a result, with
\* one read error for each pair that met the failure, and beneath the
\* target of every other pair the filesystem, the Lock Store and the list
\* of created links are what they are without the failure.
C24_ReadFailureLocal ==
    result.op = "link" /\ result.unreadable # {} /\ ~StatFails
        => /\ ~result.fatal
           /\ Cardinality(ReadErrors)
                  = Cardinality({i \in 1..Len(Pairs(cfg)) : Blocked(Pairs(cfg)[i])})
           /\ \A i \in 1..Len(Pairs(cfg)) :
                  ~Blocked(Pairs(cfg)[i])
                      => /\ TreeAt(fs, Pairs(cfg)[i].target)
                             = TreeAt(FaultFree.fs, Pairs(cfg)[i].target)
                         /\ RecordsAt(lock, Pairs(cfg)[i].target)
                             = RecordsAt(FaultFree.lock, Pairs(cfg)[i].target)
                         /\ ListAt(result.Created, Pairs(cfg)[i].target)
                             = ListAt(FaultFree.Created, Pairs(cfg)[i].target)

\* a non-dry-run Link met a read failure in the first pair and linked the
\* second pair
C24_Witness ==
    /\ LinkRan /\ ~result.dryRun
    /\ Len(Pairs(cfg)) = 2
    /\ Blocked(Pairs(cfg)[1]) /\ ~Blocked(Pairs(cfg)[2])
    /\ ReadErrors # {}
    /\ ListAt(result.Created, Pairs(cfg)[2].target) # <<>>

\* C25: when the dead-link scan meets a stat failure other than not-found
\* on a recorded target, Link returns a fatal error and no result, and has
\* changed neither the filesystem nor the Lock Store.
C25_FatalScanChangesNothing ==
    result.op = "link" /\ StatFails
        => /\ result.fatal
           /\ fs = prev.fs
           /\ lock = prev.lock
           /\ result.Created = <<>> /\ result.Removed = <<>>
           /\ result.Errors = <<>>

\* a non-dry-run Link found a recorded target beneath a path that is a file
C25_Witness ==
    /\ result.op = "link" /\ ~result.dryRun
    /\ StatFails
    /\ prev.lock # << >>

-----------------------------------------------------------------------------
(* The order of the two phases of Link.                                    *)

\* the paths of the events of kind ev, in the order of the record
Logged(ev) ==
    LET evs == SelectSeq(result.Log, LAMBDA e : e.ev = ev)
    IN  [i \in 1..Len(evs) |-> evs[i].path]

\* T was removed as a dead link and created again in the last call
RemovedAndCreated(T) == T \in Range(result.Removed) /\ T \in Range(result.Created)

\* C26: within one Link call every dead-link removal happens before the
\* first symlink creation, and the dead links are those of the state the
\* call started from; a target that is both in removed and in created was
\* removed first and created afterwards (so it is a recorded symlink
\* at the end of a non-dry-run call).
C26_RemovalsBeforeCreations ==
    LinkRan
        => /\ Logged("removed") = result.Removed
           /\ Logged("created") = result.Created
           /\ \A i, j \in 1..Len(result.Log) :
                  result.Log[i].ev = "removed" /\ result.Log[j].ev = "created"
                      => i < j
           /\ Range(result.Removed)
                  \subseteq Range(GetDeadSymlinks(prev.lock, prev.fs).dead)
           /\ \A T \in DOMAIN prev.lock :
                  RemovedAndCreated(T) /\ ~result.dryRun
                      => IsLink(fs, T) /\ T \in DOMAIN lock

\* a non-dry-run Link removed a dead link and created it again
C26_Witness ==
    /\ LinkRan /\ ~result.dryRun
    /\ \E T \in DOMAIN prev.lock : RemovedAndCreated(T)

-----------------------------------------------------------------------------
(* Folded directories.                                                     *)

\* the records the last call wrote (AddSymlink stamps them with its time)
Written == {T \in DOMAIN lock : lock[T].Created = clock - 1}

\* the number of times T is in list
Times(list, T) == Cardinality({i \in 1..Len(list) : list[i] = T})

\* C27: a directory that Link folds gets one symlink, and nothing strictly
\* beneath it is created or recorded in that call, nor is anything created
\* inside the directory itself; the record written for a directory has
\* is_folded = true, the record written for a file has is_folded = false.
C27_FoldedOnceAndFlagged ==
    LinkRan
        => /\ \A T \in Written :
                  /\ lock[T].IsFolded = (fs[lock[T].Source].kind = "dir")
                  /\ lock[T].IsFolded
                         => /\ Times(result.Created, T) <= 1
                            /\ \A q \in Written \cup Range(result.Created) :
                                   ~Under(q, T)
                            /\ TreeAt(fs, lock[T].Source)
                                   = TreeAt(prev.fs, lock[T].Source)
                            /\ ~result.dryRun => IsLink(fs, T)

\* a non-dry-run Link folded a directory that holds entries, and linked a
\* file beside it
C27_Witness ==
    /\ LinkRan /\ ~result.dryRun
    /\ \E T \in Range(result.Created) :
           /\ lock[T].IsFolded
           /\ Children(fs, lock[T].Source) # {}
    /\ \E T \in Range(result.Created) : ~lock[T].IsFolded

-----------------------------------------------------------------------------
(* What Link and Unlink may touch.                                         *)

\* C29: Unlink only ever removes symlinks: after a non-dry-run Unlink every
\* regular file and every directory of the filesystem it started from is
\* still there, unchanged, also when it stands at a recorded target path.
C29_UnlinkKeepsNonSymlinks ==
    Unlinked =>
        \A p \in DOMAIN prev.fs :
            prev.fs[p].kind # "link" => p \in DOMAIN fs /\ fs[p] = prev.fs[p]

\* C30: Link and Unlink never create or delete a filesystem entry whose
\* physical location is inside a package source tree: after a call, the
\* entries beneath every package source are those the call started from.
C30_SourceTreesUntouched ==
    result.op \in {"link", "unlink"}
        => \A i \in 1..Len(cfg.Packages) :
               DOMAIN TreeAt(fs, cfg.Packages[i].Source)
                   = DOMAIN TreeAt(prev.fs, cfg.Packages[i].Source)

-----------------------------------------------------------------------------
(* Dry runs, dead links and stale records after a Link.                    *)

\* what a non-dry-run Link gives from the state the last call started from
RealLink == LinkCall(Calm(FALSE), prev.fs, prev.lock).st

\* the errors of failed filesystem operations (a conflict is none)
OperationFailed(errors) ==
    \E k \in 1..Len(errors) :
        errors[k].kind \in {"mkdir", "remove", "symlink", "readdir"}

\* the last call was a dry-run Link, and the non-dry-run Link from the same
\* state meets no failing filesystem operation
Previewed ==
    /\ LinkRan /\ result.dryRun /\ NoFault
    /\ ~OperationFailed(RealLink.Errors)

\* C31: a dry-run Link is a faithful preview: from the same configuration,
\* Lock Store and filesystem it returns the created list and the removed
\* list of a non-dry-run Link in which no filesystem operation fails, and
\* leaves the Lock Store in memory with the same set of records.
C31_DryRunPreviews ==
    Previewed
        => /\ result.Created = RealLink.Created
           /\ result.Removed = RealLink.Removed
           /\ DOMAIN lock = DOMAIN RealLink.lock

\* the dead-link scan of the current state finds nothing
NoDeadLinks ==
    /\ GetDeadSymlinks(lock, fs).err = "nil"
    /\ GetDeadSymlinks(lock, fs).dead = <<>>

\* C32 as stated: after a non-dry-run Link that returns an empty errors
\* list no recorded link is dead: GetDeadSymlinks on the resulting Lock
\* Store and filesystem returns an empty list.
C32_NoDeadLinkLeft == CleanLink => NoDeadLinks

\* the record of T was dead when the last call started: nothing at T, or a
\* symlink whose destination does not exist or is not the recorded source
WasDead(T) == Missing(prev.fs, T) \/ Strayed(prev.lock, prev.fs, T)

\* C33 as stated: after a non-dry-run Link that returns an empty errors
\* list the Lock Store holds a record only for a path the walk of the
\* current configuration linked in this pass; the records of paths that no
\* package declares any more are removed.
C33_OnlyLinkedRecords == CleanLink => DOMAIN lock \subseteq Written

\* C33, for the records the code keeps: after a non-dry-run Link that
\* returns an empty errors list, every record of the Lock Store is one the
\* walk wrote in this pass, or one that was there before the pass, was not
\* dead, and is unchanged.
C33_LinkedOrKeptAlive ==
    CleanLink
        => \A T \in DOMAIN lock :
               \/ T \in Written
               \/ /\ T \in DOMAIN prev.lock
                  /\ lock[T] = prev.lock[T]
                  /\ ~WasDead(T)

\* an error-free Link kept the record of a path that its walk did not link
C33_Witness == CleanLink /\ \E T \in DOMAIN lock : T \notin Written

-----------------------------------------------------------------------------
(* A change of the fold settings between two calls of Link.                *)

\* the directory /s/d of package A, its place under /t, and its file f
SourceD == src_s \o <<n_d>>
TargetD == tgt_t \o <<n_d>>

\* configuration c links package A into /t and folds /s/d (or does not)
DeclaresD(c, folded) ==
    \E i \in 1..Len(Pairs(c)) :
        /\ Pairs(c)[i].pkg.Source = src_s
        /\ Pairs(c)[i].target = tgt_t
        /\ shouldFold(n_d, src_s, Pairs(c)[i].pkg) = folded

\* /t/d is the folded symlink of /s/d in filesystem f, recorded as such in l
FoldedD(f, l) ==
    /\ IsLink(f, TargetD) /\ PointsAt(f, TargetD) = SourceD
    /\ TargetD \in DOMAIN l
    /\ l[TargetD].Source = SourceD /\ l[TargetD].IsFolded

\* /t/d is a real directory in f that holds the symlink of the file /s/d/f,
\* recorded in l
UnfoldedD(f, l) ==
    /\ IsOther(f, TargetD) /\ f[TargetD].kind = "dir"
    /\ IsLink(f, TargetD \o <<n_f>>)
    /\ PointsAt(f, TargetD \o <<n_f>>) = SourceD \o <<n_f>>
    /\ (TargetD \o <<n_f>>) \in DOMAIN l
    /\ l[TargetD \o <<n_f>>].Source = SourceD \o <<n_f>>
    /\ ~l[TargetD \o <<n_f>>].IsFolded

\* the last operation was a non-dry-run Link, met no fault, and followed a
\* change of the configuration
LinkedAfterEdit ==
    /\ LinkRan /\ ~result.dryRun /\ NoFault
    /\ prev.result.op = "edit"

\* C34: Link converges after a change of fold settings: when /s/d was
\* folded by an earlier Link and the configuration now forbids folding it,
\* the next non-dry-run Link returns no errors and leaves /t/d a real
\* directory of per-file symlinks; when /s/d was linked file by file and the
\* configuration now folds it, the next Link returns no errors and leaves
\* the single folded symlink /t/d.
C34_FoldChangeConverges ==
    LinkedAfterEdit =>
        /\ (FoldedD(prev.fs, prev.lock) /\ DeclaresD(cfg, FALSE))
               => (result.Errors = <<>> /\ UnfoldedD(fs, lock))
        /\ (UnfoldedD(prev.fs, prev.lock) /\ DeclaresD(cfg, TRUE))
               => (result.Errors = <<>> /\ FoldedD(fs, lock))

\* the two halves of C34, each on its own
C34_UnfoldConverges ==
    (LinkedAfterEdit /\ FoldedD(prev.fs, prev.lock) /\ DeclaresD(cfg, FALSE))
        => (result.Errors = <<>> /\ UnfoldedD(fs, lock))
C34_FoldConverges ==
    (LinkedAfterEdit /\ UnfoldedD(prev.fs, prev.lock) /\ DeclaresD(cfg, TRUE))
        => (result.Errors = <<>> /\ FoldedD(fs, lock))

-----------------------------------------------------------------------------
(* Link followed by Unlink.                                                *)

\* p lies strictly beneath a target directory of configuration c
InTarget(c, p) ==
    \E i \in 1..Len(Pairs(c)) : Under(p, Pairs(c)[i].target) /\ p # Pairs(c)[i].target

\* the last operation was a non-dry-run Unlink that no removal failed in,
\* and it followed a non-dry-run Link
UnlinkedAfterLink ==
    /\ Unlinked /\ NoFault /\ result.Errors = <<>>
    /\ prev.result.op = "link" /\ ~prev.result.dryRun /\ ~prev.result.fatal

\* that Link started from an empty Lock Store and from target directories
\* without entries: it removed nothing, every record is of a path it
\* created, and beneath the targets there is nothing but what it created
\* and the directories that hold it
StartedClean ==
    /\ prev.result.Removed = <<>>
    /\ DOMAIN prev.lock \subseteq Range(prev.result.Created)
    /\ \A p \in DOMAIN prev.fs :
           InTarget(cfg, p) =>
               \/ p \in Range(prev.result.Created)
               \/ /\ prev.fs[p].kind = "dir"
                  /\ \E q \in Range(prev.result.Created) : Under(q, p)

\* the source trees of configuration c are in g as they are in f
SameSources(c, f, g) ==
    \A i \in 1..Len(c.Packages) :
        TreeAt(g, c.Packages[i].Source) = TreeAt(f, c.Packages[i].Source)

\* the Link was the first operation
FromTheStart == steps = 2

\* C35: Link followed by Unlink undoes the links: from an empty Lock Store
\* and targets without entries, after a non-dry-run Link and a non-dry-run
\* Unlink in which no removal fails, no path listed in created is a symlink,
\* the Lock Store is empty and the source trees are as they were before the
\* Link.
C35_UnlinkUndoesLink ==
    (UnlinkedAfterLink /\ StartedClean /\ FromTheStart) =>
        /\ \A T \in Range(prev.result.Created) : ~IsLink(fs, T)
        /\ DOMAIN lock = {}
        /\ SameSources(cfg, UndoFs, fs)

\* the same without the source trees: no created path is a symlink and the
\* Lock Store is empty
C35_LinksAndRecordsGone ==
    (UnlinkedAfterLink /\ StartedClean) =>
        /\ \A T \in Range(prev.result.Created) : ~IsLink(fs, T)
        /\ DOMAIN lock = {}

\* a Link that created links, then an Unlink
C35_Witness ==
    /\ UnlinkedAfterLink /\ StartedClean
    /\ prev.result.Created # <<>>

-----------------------------------------------------------------------------
(* The commands: the lock file under concurrent invocations, the number of *)
(* saves of an invocation, the listings of the status display.             *)

\* invocation p wrote the lock file
Wrote(p) == runs[p].saves > 0 /\ runs[p].fatal # "save"

\* invocation p wrote the lock file last
WroteLast(p) ==
    /\ Wrote(p)
    /\ \A q \in 1..MaxRuns : (q # p /\ Wrote(q)) => runs[q].savedAt < runs[p].savedAt

\* invocations p and q of link ran concurrently: q loaded the lock file
\* before p saved it, and saved it after p did
Raced(p, q) ==
    /\ runs[p].cmd = "link" /\ runs[q].cmd = "link"
    /\ Wrote(p) /\ Wrote(q)
    /\ runs[q].loadedAt < runs[p].savedAt
    /\ runs[p].savedAt < runs[q].savedAt

\* a symlink that invocation p created, that still exists, and that the
\* lock file has no record of
LostRecord(p) ==
    \E T \in Range(runs[p].Created) :
        IsLink(fs, T) /\ T \notin DOMAIN RecordsOf(disk)

\* C36: invocations that share a lock file are not serialized, and the
\* later save overwrites the earlier one: the lock file is the document of
\* the Lock Store of the invocation that wrote it last, whatever another
\* invocation wrote before.
C36_LastSaveWins ==
    \A p \in 1..MaxRuns :
        WroteLast(p) => disk = Marshal(runs[p].header, runs[p].lock)

\* two invocations of link raced, and the lock file has no record of a
\* symlink that the first of them created and that still exists
C36_Witness ==
    \E p, q \in 1..MaxRuns : Raced(p, q) /\ LostRecord(p)

\* invocation p of link or unlink is one that has to save the lock file: it
\* is no dry run, and neither a load nor the pass failed fatally
HasToSave(p) ==
    /\ ~runs[p].dryRun
    /\ runs[p].fatal \notin {"config", "lockfile", "pass"}

\* C37: an invocation of link or unlink calls Save on the lock file exactly
\* once, after the pass, when it is no dry run and neither loading the
\* configuration or the lock file nor the pass fails fatally (per-entry
\* errors do not matter), and never otherwise.
C37_SavedOnceAfterPass ==
    \A p \in 1..MaxRuns :
        runs[p].cmd \in {"link", "unlink"} =>
            /\ runs[p].saves <= 1
            /\ runs[p].saves = 1 =>
                   /\ HasToSave(p)
                   /\ 0 < runs[p].passedAt /\ runs[p].passedAt < runs[p].savedAt
            /\ runs[p].pc = "done" => (runs[p].saves = 1 <=> HasToSave(p))

\* an invocation whose pass returned per-entry errors has saved, one whose
\* pass failed fatally and a dry run have returned without saving
C37_Witness ==
    /\ \E p \in 1..MaxRuns : /\ runs[p].pc = "done" /\ runs[p].saves = 1
                             /\ runs[p].Errors # <<>>
    /\ \E p \in 1..MaxRuns : /\ runs[p].pc = "done" /\ runs[p].saves = 0
                             /\ (runs[p].fatal = "pass" \/ runs[p].dryRun)
                             /\ runs[p].passedAt > 0

\* invocation p of status has printed its listings
Listed(p) == runs[p].cmd = "status" /\ runs[p].pc = "done"

\* C39: the status display prints the tracked links and the dead links in
\* ascending target order, whatever the iteration order of the map.
C39_ListingsAscending ==
    \A p \in 1..MaxRuns :
        Listed(p) => Ascending(runs[p].tracked) /\ Ascending(runs[p].dead)

\* the dead links alone are printed in ascending order
C39_DeadListingAscending ==
    \A p \in 1..MaxRuns : Listed(p) => Ascending(runs[p].dead)

-----------------------------------------------------------------------------
(* The ignore patterns of a validated Config.                              *)

\* Config i has been validated without error
Validated(i) ==
    /\ mem.configs[i].made /\ mem.configs[i].ok
    /\ mem.configs[i].validated > 0

\* C38: after Validate the effective ignore list of a Config is the default
\* patterns followed by its own ignore patterns, however often Validate was
\* called on it or on another Config, and the default pattern set never
\* changes.
C38_DefaultsThenOwn ==
    /\ SliceOf(mem.heap, mem.defaults) = defaultIgnorePatterns
    /\ \A i \in 1..MaxConfigs :
           Validated(i) =>
               SliceOf(mem.heap, mem.configs[i].IgnoreGlobs)
                   = defaultIgnorePatterns \o mem.configs[i].Ignore

\* two Configs with different ignore lists of their own, both validated,
\* and one of them validated twice
C38_Witness ==
    \E i, j \in 1..MaxConfigs :
        /\ Validated(i) /\ Validated(j)
        /\ mem.configs[i].Ignore # <<>>
        /\ mem.configs[j].Ignore # <<>>
        /\ mem.configs[i].Ignore # mem.configs[j].Ignore
        /\ mem.configs[i].validated = 2

=============================================================================
